---- MODULE Spec2Model ----
(***************************************************************************)
(* PyChess: the internal board (src/src/board.py), the committed move of   *)
(* the displayed board (src/src/display.py) and the post-game replay board *)
(* used for PGN notation (src/src/pgn.py).                                 *)
(*                                                                         *)
(* A square is its index file * 8 + rank, which is the order in which      *)
(* Board.__iter__ visits the squares.  A piece is a record; "id" stands    *)
(* for the identity of the Python object (Piece.__eq__ compares __dict__,  *)
(* which holds the piece's own image surface, so two pieces are equal only *)
(* when they are the same object).                                         *)
(***************************************************************************)
EXTENDS Integers, Sequences, FiniteSets, TLC

FILES == 8
RANKS == 8
WHITE == 0
BLACK == 1

Squares == 0 .. (FILES * RANKS - 1)

FileOf(s) == s \div RANKS
RankOf(s) == s % RANKS
SquareAt(file, rank) == file * RANKS + rank
OnBoard(file, rank) == 0 <= file /\ file < FILES /\ 0 <= rank /\ rank < RANKS

Abs(x) == IF x < 0 THEN -x ELSE x

\* A square without a piece (Square.piece is None).
NoPiece == [type |-> "none", colour |-> 2, id |-> 0, promoted |-> FALSE]

MkPiece(type, colour, id, promoted) ==
    [type |-> type, colour |-> colour, id |-> id, promoted |-> promoted]

\* Square.empty
Empty(p) == p.type = "none"

\* Piece.__repr__: unique letter followed by the colour value.
UniqueLetter(type) ==
    CASE type = "pawn" -> "p"
      [] type = "knight" -> "n"
      [] type = "bishop" -> "b"
      [] type = "rook" -> "r"
      [] type = "queen" -> "q"
      [] type = "king" -> "k"

\* A __repr__ that tells one piece from another of its kind and colour.
Repr_with_identity(p) == <<UniqueLetter(p.type), p.colour, p.id>>

Repr(p) == <<UniqueLetter(p.type), p.colour>>

\* Square.copy: file, rank and the piece standing there.
SquareCopy(g, s) == [file |-> FileOf(s), rank |-> RankOf(s), piece |-> g[s]]

BackRank == <<"rook", "knight", "bishop", "queen", "king", "bishop", "knight", "rook">>

\* Board.__init__: the starting grid.
InitialGrid ==
    [s \in Squares |->
        CASE RankOf(s) = 0 -> MkPiece(BackRank[FileOf(s) + 1], WHITE, s + 1, FALSE)
          [] RankOf(s) = 1 -> MkPiece("pawn", WHITE, s + 1, FALSE)
          [] RankOf(s) = 6 -> MkPiece("pawn", BLACK, s + 1, FALSE)
          [] RankOf(s) = 7 -> MkPiece(BackRank[FileOf(s) + 1], BLACK, s + 1, FALSE)
          [] OTHER -> NoPiece]

\* An opponent that is the side itself, so that invert_turn changes nothing.
Opponent_unchanged(turn) == turn

\* Board.opponent
Opponent(turn) == IF turn = WHITE THEN BLACK ELSE WHITE

\* A board is [grid, turn, moves, test_move]; invert_turn flips the turn.
MkBoard(g, t, ms, test) == [grid |-> g, turn |-> t, moves |-> ms, test_move |-> test]

invert_turn(b) == [b EXCEPT !.turn = Opponent(b.turn)]

\* Board.get_king_square: the first square, in iteration order, holding a king
\* of the side to move (or of the other side); -1 stands for Python's None.
get_king_square(b, opponent) ==
    LET kings == {s \in Squares : /\ b.grid[s].type = "king"
                                  /\ ((b.grid[s].colour # b.turn) = opponent)}
    IN  IF kings = {} THEN -1
        ELSE CHOOSE s \in kings : \A o \in kings : s <= o

\* An is_en_passant that accepts a two-square advance made at any earlier
\* move, not only at the previous one.
is_en_passant_stale(b, square, move) ==
    IF b.grid[square].type # "pawn" \/ Len(b.moves) = 0 THEN FALSE
    ELSE LET rank == IF b.turn = WHITE THEN RANKS - 3 - 1 ELSE 3
         IN  IF RankOf(square) # rank THEN FALSE
             ELSE \E i \in 1 .. Len(b.moves) :
                     /\ b.moves[i].from_before.piece.type = "pawn"
                     /\ b.moves[i].from_before.file = FileOf(move)
                     /\ b.moves[i].to_before.rank = rank
                     /\ Abs(b.moves[i].from_before.rank
                            - b.moves[i].to_before.rank) = 2

(***************************************************************************)
(* Board.is_en_passant                                                     *)
(***************************************************************************)
is_en_passant(b, square, move) ==
    IF b.grid[square].type # "pawn" \/ Len(b.moves) = 0 THEN FALSE
    ELSE LET rank == IF b.turn = WHITE THEN RANKS - 3 - 1 ELSE 3
             previous_move == b.moves[Len(b.moves)]
         IN  IF RankOf(square) # rank THEN FALSE
             ELSE /\ previous_move.from_before.piece.type = "pawn"
                  /\ previous_move.from_before.file = FileOf(move)
                  /\ previous_move.to_before.rank = rank
                  /\ Abs(previous_move.from_before.rank
                         - previous_move.to_before.rank) = 2

\* Board.is_promotion
is_promotion(b, square, move) ==
    b.grid[square].type = "pawn" /\ RankOf(move) \in {0, RANKS - 1}

(***************************************************************************)
(* The candidate lists the get_*_moves methods build before they hand them *)
(* to filter_possible_moves.                                               *)
(***************************************************************************)
Opt(cond, s) == IF cond THEN <<s>> ELSE <<>>

\* A get_pawn_moves without the advance of two squares from the pawn's rank.
pawn_candidates_single_step(b, square) ==
    LET g == b.grid
        file == FileOf(square)
        rank == RankOf(square)
        white == b.turn = WHITE
        dr == IF white THEN 1 ELSE -1
        forward == SquareAt(file, rank + dr)
        left_file == IF white THEN file - 1 ELSE file + 1
        right_file == IF white THEN file + 1 ELSE file - 1
        Side(f) ==
            IF ~(0 <= f /\ f < FILES) THEN <<>>
            ELSE LET move == SquareAt(f, rank + dr)
                 IN  Opt((~Empty(g[move]) /\ g[move].colour # b.turn)
                            \/ is_en_passant(b, square, move), move)
    IN  Opt(Empty(g[forward]), forward) \o Side(left_file) \o Side(right_file)

\* Board.get_pawn_moves, lines 519-551.
pawn_candidates(b, square) ==
    LET g == b.grid
        file == FileOf(square)
        rank == RankOf(square)
        white == b.turn = WHITE
        dr == IF white THEN 1 ELSE -1
        forward == SquareAt(file, rank + dr)
        has_two == IF white THEN rank = 1 ELSE rank = RANKS - 2
        forward_two == SquareAt(file, rank + 2 * dr)
        \* left and right as the code names them: for Black, left is file + 1.
        left_file == IF white THEN file - 1 ELSE file + 1
        right_file == IF white THEN file + 1 ELSE file - 1
        Side(f) ==
            IF ~(0 <= f /\ f < FILES) THEN <<>>
            ELSE LET move == SquareAt(f, rank + dr)
                 IN  Opt((~Empty(g[move]) /\ g[move].colour # b.turn)
                            \/ is_en_passant(b, square, move), move)
    IN  (IF Empty(g[forward])
         THEN <<forward>> \o Opt(has_two /\ Empty(g[forward_two]), forward_two)
         ELSE <<>>)
        \o Side(left_file) \o Side(right_file)

\* product((-2, -1, 1, 2), repeat=2) without the diagonal pairs.
KnightShifts ==
    << <<-2, -1>>, <<-2, 1>>, <<-1, -2>>, <<-1, 2>>,
       <<1, -2>>, <<1, 2>>, <<2, -1>>, <<2, 1>> >>

\* Board.get_knight_moves, lines 557-568.
RECURSIVE knight_from(_, _, _)
knight_from(b, square, i) ==
    IF i > Len(KnightShifts) THEN <<>>
    ELSE LET file == FileOf(square) + KnightShifts[i][1]
             rank == RankOf(square) + KnightShifts[i][2]
         IN  (IF OnBoard(file, rank)
                 /\ (Empty(b.grid[SquareAt(file, rank)])
                     \/ b.grid[SquareAt(file, rank)].colour # b.turn)
              THEN <<SquareAt(file, rank)>> ELSE <<>>)
             \o knight_from(b, square, i + 1)

knight_candidates(b, square) == knight_from(b, square, 1)

\* product((-1, 1), repeat=2)
BishopShifts == << <<-1, -1>>, <<-1, 1>>, <<1, -1>>, <<1, 1>> >>
\* the pairs of product((-1, 0, 1), repeat=2) with exactly one 0
RookShifts == << <<-1, 0>>, <<0, -1>>, <<0, 1>>, <<1, 0>> >>
\* the pairs of product((-1, 0, 1), repeat=2) with fewer than two 0
KingShifts ==
    << <<-1, -1>>, <<-1, 0>>, <<-1, 1>>, <<0, -1>>,
       <<0, 1>>, <<1, -1>>, <<1, 0>>, <<1, 1>> >>

\* Board._get_straight_line_moves: one direction, from distance n on.
RECURSIVE line_from(_, _, _, _, _)
line_from(b, square, shift, n, max_distance) ==
    IF n > max_distance THEN <<>>
    ELSE LET file == FileOf(square) + shift[1] * n
             rank == RankOf(square) + shift[2] * n
         IN  IF ~OnBoard(file, rank) THEN <<>>
             ELSE IF Empty(b.grid[SquareAt(file, rank)])
                  THEN <<SquareAt(file, rank)>>
                       \o line_from(b, square, shift, n + 1, max_distance)
                  ELSE Opt(b.grid[SquareAt(file, rank)].colour # b.turn,
                           SquareAt(file, rank))

\* Board._get_straight_line_moves, lines 580-593: every direction in turn.
RECURSIVE straight_line_candidates(_, _, _, _, _)
straight_line_candidates(b, square, shifts, i, max_distance) ==
    IF i > Len(shifts) THEN <<>>
    ELSE line_from(b, square, shifts[i], 1, max_distance)
         \o straight_line_candidates(b, square, shifts, i + 1, max_distance)

\* move_methods[type](square) while test_move is set: filter_possible_moves
\* returns its argument and get_king_moves skips castling.
test_moves(b, square) ==
    LET type == b.grid[square].type
    IN  CASE type = "pawn" -> pawn_candidates(b, square)
          [] type = "knight" -> knight_candidates(b, square)
          [] type = "bishop" ->
                straight_line_candidates(b, square, BishopShifts, 1, FILES - 1)
          [] type = "rook" ->
                straight_line_candidates(b, square, RookShifts, 1, FILES - 1)
          [] type = "queen" ->
                straight_line_candidates(b, square, BishopShifts, 1, FILES - 1)
                \o straight_line_candidates(b, square, RookShifts, 1, FILES - 1)
          [] type = "king" ->
                straight_line_candidates(b, square, KingShifts, 1, 1)

InSeq(x, seq) == \E i \in 1 .. Len(seq) : seq[i] = x
Range(seq) == {seq[i] : i \in 1 .. Len(seq)}

\* The squares holding a piece of the side to move.
OwnSquares(b) == {s \in Squares : ~Empty(b.grid[s]) /\ b.grid[s].colour = b.turn}

\* Board.get_all_moves while test_move is set.  Its callers only ask whether a
\* square is in the list, whether the list is empty and what stands on its
\* squares, so the list is kept as the set of its squares.
all_test_moves(b) == UNION {Range(test_moves(b, s)) : s \in OwnSquares(b)}

(***************************************************************************)
(* Board.legal_move.  Lines 170-195 put the move on the board and hand the *)
(* turn to the opponent; lines 196-199 ask whether a reply lands on a      *)
(* king; lines 201-210 put every piece back, so the board the method       *)
(* leaves is the board it was given.                                       *)
(***************************************************************************)
is_castling_unvalidated(b, square, move) ==
    b.grid[square].type = "king" /\ Abs(FileOf(move) - FileOf(square)) = 2

\* The board of lines 170-195: an en passant victim and a castling rook are on
\* other squares than the moving piece, so the pieces read along the way are
\* the ones of the board given.
simulated_move(b, square, move) ==
    LET ep == is_en_passant(b, square, move)
        castling == is_castling_unvalidated(b, square, move)
        kingside == FileOf(move) = 6
        en_passant_victim == SquareAt(FileOf(move), RankOf(square))
        rook_square == SquareAt(IF kingside THEN FILES - 1 ELSE 0, RankOf(square))
        new_rook_square == SquareAt(IF kingside THEN 5 ELSE 3, RankOf(square))
        rook == b.grid[rook_square]
        original_piece == b.grid[square]
        g1 == [b.grid EXCEPT ![en_passant_victim] = IF ep THEN NoPiece ELSE @]
        g2 == [g1 EXCEPT ![rook_square] = IF castling THEN NoPiece ELSE @]
        g3 == [g2 EXCEPT ![square] = NoPiece, ![move] = original_piece]
        g4 == [g3 EXCEPT ![new_rook_square] = IF castling THEN rook ELSE @]
    IN  MkBoard(g4, Opponent(b.turn), b.moves, TRUE)

\* A legal_move that never looks at the opponent's replies.
legal_move_unchecked(b, square, move) == TRUE

\* Lines 196-199 on the simulated board.
is_legal(during) ==
    \A opponent_move \in all_test_moves(during) :
        Empty(during.grid[opponent_move]) \/ during.grid[opponent_move].type # "king"

legal_move(b, square, move) == is_legal(simulated_move(b, square, move))

\* Board.filter_possible_moves
filter_possible_moves(b, square, moves) ==
    IF b.test_move THEN moves
    ELSE SelectSeq(moves, LAMBDA move : legal_move(b, square, move))

\* Board.any_square_under_attack
any_square_under_attack(b, squares) ==
    LET opponent_moves == all_test_moves(MkBoard(b.grid, Opponent(b.turn), b.moves, TRUE))
    IN  \E i \in 1 .. Len(squares) : squares[i] \in opponent_moves

\* Board.is_castling with validate=True, lines 238-270.
is_castling(b, square, move) ==
    IF ~is_castling_unvalidated(b, square, move) THEN FALSE
    ELSE LET kingside == FileOf(move) = 6
             rank == RankOf(square)
             rook_square == SquareAt(IF kingside THEN FILES - 1 ELSE 0, rank)
             king == b.grid[square]
             rook == b.grid[rook_square]
             \* self.moves[self.turn.value::2]
             own == {i \in 1 .. Len(b.moves) : (i - 1) % 2 = b.turn}
             between == IF kingside THEN 5 .. (FILES - 2) ELSE 1 .. 3
             safe == IF kingside THEN <<SquareAt(4, rank), SquareAt(5, rank)>>
                     ELSE <<SquareAt(3, rank), SquareAt(4, rank)>>
         IN  IF Empty(rook) \/ rook.type # "rook" \/ rook.colour # b.turn THEN FALSE
             ELSE IF \E i \in own : b.moves[i].from_before.piece \in {king, rook}
                  THEN FALSE
             ELSE IF \E file \in between : ~Empty(b.grid[SquareAt(file, rank)])
                  THEN FALSE
             ELSE ~any_square_under_attack(b, safe)

\* Board.get_pawn_moves, get_knight_moves, get_bishop_moves, get_rook_moves,
\* get_queen_moves: the candidates, filtered.
get_pawn_moves(b, square) ==
    filter_possible_moves(b, square, pawn_candidates(b, square))

get_knight_moves(b, square) ==
    filter_possible_moves(b, square, knight_candidates(b, square))

straight_line_moves(b, square, shifts, max_distance) ==
    filter_possible_moves(b, square,
        straight_line_candidates(b, square, shifts, 1, max_distance))

get_bishop_moves(b, square) == straight_line_moves(b, square, BishopShifts, FILES - 1)

get_rook_moves(b, square) == straight_line_moves(b, square, RookShifts, FILES - 1)

get_queen_moves(b, square) == get_bishop_moves(b, square) \o get_rook_moves(b, square)

\* Board.get_king_moves, lines 618-634.
get_king_moves(b, square) ==
    LET moves == straight_line_moves(b, square, KingShifts, 1)
        backrank == IF b.turn = WHITE THEN 0 ELSE RANKS - 1
        Castle(move) ==
            Opt(is_castling(b, square, move) /\ legal_move(b, square, move), move)
    IN  IF FileOf(square) = 4 /\ RankOf(square) = backrank /\ ~b.test_move
        THEN moves \o Castle(SquareAt(6, backrank)) \o Castle(SquareAt(2, backrank))
        ELSE moves

\* Board.move_methods[type](square)
move_methods(b, square) ==
    LET type == b.grid[square].type
    IN  CASE type = "pawn" -> get_pawn_moves(b, square)
          [] type = "knight" -> get_knight_moves(b, square)
          [] type = "bishop" -> get_bishop_moves(b, square)
          [] type = "rook" -> get_rook_moves(b, square)
          [] type = "queen" -> get_queen_moves(b, square)
          [] type = "king" -> get_king_moves(b, square)

\* Board.get_moves: one entry per piece of the side to move, in the order the
\* squares are visited; the dictionary key is the piece itself.
InOrder(S) ==
    [i \in 1 .. Cardinality(S) |->
        CHOOSE s \in S : Cardinality({o \in S : o < s}) = i - 1]

get_moves(b) ==
    LET own == InOrder(OwnSquares(b))
    IN  [i \in 1 .. Len(own) |->
            [piece |-> b.grid[own[i]], moves |-> move_methods(b, own[i])]]

\* Board.get_all_moves, as the set of the squares in the list.
get_all_moves(b) ==
    IF b.test_move THEN all_test_moves(b)
    ELSE UNION {Range(move_methods(b, s)) : s \in OwnSquares(b)}

\* Board.is_check
is_check(b) ==
    LET king_square == get_king_square(b, FALSE)
        opponent_moves == all_test_moves(MkBoard(b.grid, Opponent(b.turn), b.moves, TRUE))
    IN  king_square \in opponent_moves

\* A checkmate_square that never finds a mate.
checkmate_square_never(b) == -1

\* Board.checkmate_square; -1 stands for None.
checkmate_square(b) ==
    LET possible_next_squares == all_test_moves([b EXCEPT !.test_move = TRUE])
        king_square == get_king_square(b, TRUE)
        king_attacked == king_square \in possible_next_squares
    IN  IF ~king_attacked THEN -1
        ELSE IF get_all_moves(invert_turn(b)) = {} THEN king_square ELSE -1

(***************************************************************************)
(* What the queries leave behind.  Board.legal_move, any_square_under_     *)
(* attack, is_check, checkmate_square and get_moves assign to squares, to  *)
(* turn and to test_move while they run; the operators below follow those  *)
(* assignments one by one on a record of the fields a caller can see.      *)
(***************************************************************************)
Frame(b, position_counts) ==
    [grid |-> b.grid, turn |-> b.turn, moves |-> b.moves,
     test_move |-> b.test_move, position_counts |-> position_counts]

\* The assignments of lines 170-195 of legal_move, made on the frame.
simulated_frame(f, during) ==
    [f EXCEPT !.grid = during.grid, !.turn = during.turn, !.test_move = during.test_move]

\* A restoration that leaves the castling rook where the simulation put it.
legal_move_restored_rook_left(f, during, square, move) ==
    LET ep == is_en_passant(f, square, move)
        castling == is_castling_unvalidated(f, square, move)
        kingside == FileOf(move) = 6
        en_passant_victim == SquareAt(FileOf(move), RankOf(square))
        rook_square == SquareAt(IF kingside THEN FILES - 1 ELSE 0, RankOf(square))
        g1 == [during.grid EXCEPT ![square] = f.grid[square]]
        g2 == [g1 EXCEPT ![move] = f.grid[move]]
        g3 == [g2 EXCEPT ![en_passant_victim] = IF ep THEN f.grid[en_passant_victim] ELSE @]
        g4 == [g3 EXCEPT ![rook_square] = IF castling THEN f.grid[rook_square] ELSE @]
    IN  [during EXCEPT !.grid = g4, !.turn = Opponent(during.turn), !.test_move = FALSE]

\* Lines 201-210 of legal_move: original_piece, original_move_piece,
\* en_passant_piece and rook are the pieces read from the board given, before
\* the simulation; the square the rook was put on is set to None.
legal_move_restored(f, during, square, move) ==
    LET ep == is_en_passant(f, square, move)
        castling == is_castling_unvalidated(f, square, move)
        kingside == FileOf(move) = 6
        en_passant_victim == SquareAt(FileOf(move), RankOf(square))
        rook_square == SquareAt(IF kingside THEN FILES - 1 ELSE 0, RankOf(square))
        new_rook_square == SquareAt(IF kingside THEN 5 ELSE 3, RankOf(square))
        g1 == [during.grid EXCEPT ![square] = f.grid[square]]
        g2 == [g1 EXCEPT ![move] = f.grid[move]]
        g3 == [g2 EXCEPT ![en_passant_victim] = IF ep THEN f.grid[en_passant_victim] ELSE @]
        g4 == [g3 EXCEPT ![rook_square] = IF castling THEN f.grid[rook_square] ELSE @]
        g5 == [g4 EXCEPT ![new_rook_square] = IF castling THEN NoPiece ELSE @]
    IN  [during EXCEPT !.grid = g5, !.turn = Opponent(during.turn), !.test_move = FALSE]

\* Board.legal_move, as the frame it returns with.
legal_move_after(f, square, move) ==
    legal_move_restored(f, simulated_frame(f, simulated_move(f, square, move)), square, move)

\* Board.any_square_under_attack, lines 278-283: get_all_moves runs with
\* test_move set, where no move method assigns anything.
any_square_under_attack_after(f) ==
    LET set == [f EXCEPT !.test_move = TRUE]
        inverted == invert_turn(set)
        cleared == [inverted EXCEPT !.test_move = FALSE]
    IN  invert_turn(cleared)

\* Board.is_check, lines 98-103.
is_check_after(f) ==
    LET set == [f EXCEPT !.test_move = TRUE]
        inverted == invert_turn(set)
        cleared == [inverted EXCEPT !.test_move = FALSE]
        back == invert_turn(cleared)
    IN  back

\* Board.filter_possible_moves, line 299: legal_move for one move after the
\* other, each on the board the one before left.
RECURSIVE filter_after(_, _, _, _)
filter_after(f, square, moves, i) ==
    IF f.test_move \/ i > Len(moves) THEN f
    ELSE filter_after(legal_move_after(f, square, moves[i]), square, moves, i + 1)

\* Board.is_castling, lines 238-266: whether the call gets as far as
\* any_square_under_attack.
castling_asks_attack(b, square, move) ==
    LET kingside == FileOf(move) = 6
        rank == RankOf(square)
        rook_square == SquareAt(IF kingside THEN FILES - 1 ELSE 0, rank)
        rook == b.grid[rook_square]
        own == {i \in 1 .. Len(b.moves) : (i - 1) % 2 = b.turn}
        between == IF kingside THEN 5 .. (FILES - 2) ELSE 1 .. 3
    IN  /\ is_castling_unvalidated(b, square, move)
        /\ ~(Empty(rook) \/ rook.type # "rook" \/ rook.colour # b.turn)
        /\ ~\E i \in own : b.moves[i].from_before.piece \in {b.grid[square], rook}
        /\ ~\E file \in between : ~Empty(b.grid[SquareAt(file, rank)])

\* Lines 628-633 of get_king_moves for one of the two castling squares.
castle_after(f, square, move) ==
    IF ~castling_asks_attack(f, square, move) THEN f
    ELSE IF is_castling(f, square, move)
         THEN legal_move_after(any_square_under_attack_after(f), square, move)
         ELSE any_square_under_attack_after(f)

\* Board.get_king_moves, lines 621-634.
king_moves_after(f, square) ==
    LET backrank == IF f.turn = WHITE THEN 0 ELSE RANKS - 1
    IN  IF FileOf(square) = 4 /\ RankOf(square) = backrank /\ ~f.test_move
        THEN castle_after(castle_after(f, square, SquareAt(6, backrank)),
                          square, SquareAt(2, backrank))
        ELSE f

\* Board.move_methods[type](square): the candidates are the list handed to
\* filter_possible_moves (a queen's in two calls, the king's before castling).
move_methods_after(f, square) ==
    IF f.grid[square].type = "king"
    THEN king_moves_after(filter_after(f, square, test_moves(f, square), 1), square)
    ELSE filter_after(f, square, test_moves(f, square), 1)

\* Board.get_moves and Board.get_all_moves, lines 642-645 and 651-654: the
\* squares in iteration order, each tested on the board as it then is.
RECURSIVE get_moves_after(_, _)
get_moves_after(f, s) ==
    IF s = FILES * RANKS THEN f
    ELSE IF ~Empty(f.grid[s]) /\ f.grid[s].colour = f.turn
         THEN get_moves_after(move_methods_after(f, s), s + 1)
         ELSE get_moves_after(f, s + 1)

\* Board.checkmate_square, lines 109-119.
checkmate_square_after(f) ==
    LET set == [f EXCEPT !.test_move = TRUE]
        cleared == [set EXCEPT !.test_move = FALSE]
    IN  IF get_king_square(f, TRUE) \notin all_test_moves(set) THEN cleared
        ELSE invert_turn(get_moves_after(invert_turn(cleared), 0))

\* Board.record_position: the list that is hashed (sha256 of its text is the
\* dictionary key; the list itself stands for the hash).
position_state(b, current_moves) ==
    <<b.turn>>
    \o [i \in 1 .. FILES * RANKS |->
           IF Empty(b.grid[i - 1]) THEN <<>> ELSE Repr(b.grid[i - 1])]
    \o [i \in 1 .. Len(current_moves) |->
           <<Repr(current_moves[i].piece)>>
           \o [j \in 1 .. Len(current_moves[i].moves) |->
                  <<FileOf(current_moves[i].moves[j]), RankOf(current_moves[i].moves[j])>>]]

Count(position_counts, key) ==
    IF key \in DOMAIN position_counts THEN position_counts[key] ELSE 0

record_position(b, current_moves, position_counts) ==
    LET hash_ == position_state(b, current_moves)
    IN  [k \in DOMAIN position_counts \cup {hash_} |->
            IF k = hash_ THEN Count(position_counts, hash_) + 1 ELSE position_counts[k]]

\* An is_nfold_repetition that asks for more than n occurrences.
is_nfold_repetition_strict(position_counts, n) ==
    \E k \in DOMAIN position_counts : position_counts[k] > n

\* Board.is_nfold_repetition
is_nfold_repetition(position_counts, n) ==
    \E k \in DOMAIN position_counts : position_counts[k] >= n

\* An is_nmove_rule that looks only at the piece moved, not at the square it
\* lands on.
is_nmove_rule_captures_ignored(moves, n) ==
    IF Len(moves) < n * 2 THEN FALSE
    ELSE \A i \in (IF n = 0 THEN 1 ELSE Len(moves) - n * 2 + 1) .. Len(moves) :
            moves[i].from_before.piece.type # "pawn"

\* Board.is_nmove_rule
is_nmove_rule(moves, n) ==
    IF Len(moves) < n * 2 THEN FALSE
    ELSE \A i \in (IF n = 0 THEN 1 ELSE Len(moves) - n * 2 + 1) .. Len(moves) :
            moves[i].from_before.piece.type # "pawn" /\ Empty(moves[i].to_before.piece)

\* An is_insufficient_material that never compares the colours of the squares
\* the two bishops stand on.
is_insufficient_material_any_bishops(g) ==
    LET Of(c) == {s \in Squares : ~Empty(g[s]) /\ g[s].colour = c}
        Bishops(c) == {s \in Of(c) : g[s].type = "bishop"}
        Verdict(c) ==
            \/ Cardinality(Of(Opponent(c))) = 1 /\ Cardinality(Of(c)) <= 2
            \/ /\ Cardinality(Of(c)) = 2
               /\ Cardinality(Bishops(c)) = 1
               /\ Cardinality(Of(Opponent(c))) = 2
               /\ Cardinality(Bishops(Opponent(c))) = 1
    IN  /\ ~\E s \in Squares : g[s].type \in {"pawn", "rook", "queen"}
        /\ (Verdict(WHITE) \/ Verdict(BLACK))

\* Board.is_insufficient_material
is_insufficient_material(g) ==
    LET Of(c) == {s \in Squares : ~Empty(g[s]) /\ g[s].colour = c}
        Bishops(c) == {s \in Of(c) : g[s].type = "bishop"}
        is_dark(s) == (FileOf(s) % 2) = (RankOf(s) % 2)
        bishop_square(c) == CHOOSE s \in Bishops(c) : \A o \in Bishops(c) : o <= s
        Verdict(c) ==
            \/ Cardinality(Of(Opponent(c))) = 1 /\ Cardinality(Of(c)) <= 2
            \/ /\ Cardinality(Of(c)) = 2
               /\ Cardinality(Bishops(c)) = 1
               /\ Cardinality(Of(Opponent(c))) = 2
               /\ Cardinality(Bishops(Opponent(c))) = 1
               /\ is_dark(bishop_square(WHITE)) = is_dark(bishop_square(BLACK))
    IN  /\ ~\E s \in Squares : g[s].type \in {"pawn", "rook", "queen"}
        /\ (Verdict(WHITE) \/ Verdict(BLACK))

\* An add_capture that tallies a promoted piece as what it has become.
add_capture_by_type(tally, piece) ==
    [tally EXCEPT ![piece.colour][piece.type] = @ + 1]

\* Board.add_capture: a promoted piece is tallied as a pawn.
add_capture(tally, piece) ==
    LET piece_type == IF ~piece.promoted THEN piece.type ELSE "pawn"
    IN  [tally EXCEPT ![piece.colour][piece_type] = @ + 1]

\* Board.add_move: the Move that is appended.
Move(from_before, to_before, from_after, to_after, castling, en_passant, promotion) ==
    [from_before |-> from_before, to_before |-> to_before,
     from_after |-> from_after, to_after |-> to_after,
     castling |-> castling, en_passant |-> en_passant, promotion |-> promotion]

(***************************************************************************)
(* Board._make_move and Board._undo_move, the dummy moves of the timeout   *)
(* test, on the frame of a board; current_moves is the dictionary, which   *)
(* they leave alone.                                                       *)
(***************************************************************************)
\* _MoveData
MoveData(f, square, move) ==
    [square_piece |-> f.grid[square], move_piece |-> f.grid[move],
     position_counts |-> f.position_counts]

\* promotion_piece(self.turn, promoted=True), a new piece; "none" is no piece.
DummyPromotion(f, kind) ==
    IF kind = "none" THEN NoPiece
    ELSE MkPiece(kind, f.turn, FILES * RANKS + Len(f.moves) + 1, TRUE)

\* Board._make_move, lines 417-438: the frame it leaves.
made_dummy_move(f, current_moves, square, move, kind) ==
    LET moved == [f.grid EXCEPT ![square] = NoPiece,
                                ![move] = IF kind = "none" THEN f.grid[square]
                                          ELSE DummyPromotion(f, kind)]
    IN  [f EXCEPT
            !.grid = moved,
            !.position_counts =
                record_position([f EXCEPT !.grid = moved], current_moves, @),
            !.moves = Append(@, Move(SquareCopy(f.grid, square), SquareCopy(f.grid, move),
                                     SquareCopy(moved, square), SquareCopy(moved, move),
                                     FALSE, FALSE, kind # "none"))]

\* An _undo_move that keeps the counts of the dummy position.
undone_dummy_move_counts_kept(f, src, dest, move_data) ==
    [f EXCEPT !.grid = [@ EXCEPT ![src] = move_data.square_piece,
                                 ![dest] = move_data.move_piece],
              !.moves = SubSeq(@, 1, Len(@) - 1)]

\* Board._undo_move, lines 444-447.
undone_dummy_move(f, src, dest, move_data) ==
    [f EXCEPT !.grid = [@ EXCEPT ![src] = move_data.square_piece,
                                 ![dest] = move_data.move_piece],
              !.position_counts = move_data.position_counts,
              !.moves = SubSeq(@, 1, Len(@) - 1)]

\* Lines 461-473 of is_timeout_vs_insufficient_material: the opponent of the
\* side to move has a pawn, a rook or a queen, or three pieces.
can_still_mate(b) ==
    LET theirs == {s \in Squares : ~Empty(b.grid[s]) /\ b.grid[s].colour = Opponent(b.turn)}
    IN  \/ \E s \in theirs : b.grid[s].type \in {"pawn", "rook", "queen"}
        \/ Cardinality(theirs) >= 3

\* The square a piece stands on.
square_of(g, piece) == CHOOSE s \in Squares : g[s] = piece

\* The promotion pieces tried for a move, line 484-485.
promotion_pieces(b, square, move) ==
    IF is_promotion(b, square, move) THEN <<"knight", "bishop", "rook", "queen">>
    ELSE <<"none">>

\* Lines 494-508: with the dummy move made and the turn inverted, some move of
\* an opponent's piece other than the king gives checkmate.
reply_mates(f, current_moves) ==
    \E entry \in Range(get_moves(f)) :
        /\ entry.piece.type # "king"
        /\ \E move_ \in Range(entry.moves) :
              checkmate_square(made_dummy_move(f, current_moves,
                                               square_of(f.grid, entry.piece),
                                               move_, "none")) # -1

\* Lines 488-493 for one dummy move of the side to move.
helps_mate(f, current_moves) ==
    /\ ~(is_nfold_repetition(f.position_counts, 5) \/ is_nmove_rule(f.moves, 75))
    /\ reply_mates(f, current_moves)

\* Board.is_timeout_vs_insufficient_material, as the value it returns.
is_timeout_vs_insufficient_material(b, current_moves, position_counts) ==
    IF can_still_mate(b) THEN FALSE
    ELSE ~\E entry \in Range(current_moves) :
            \E move \in Range(entry.moves) :
               \E kind \in Range(promotion_pieces(b, square_of(b.grid, entry.piece), move)) :
                  helps_mate(invert_turn(made_dummy_move(Frame(b, position_counts),
                                 current_moves, square_of(b.grid, entry.piece), move, kind)),
                             current_moves)

\* The run of is_timeout_vs_insufficient_material on the board itself: what
\* it leaves in the squares, the turn, the history and position_counts, next
\* to the value of insuffient.  A run is [frame, insuffient].

\* Lines 503-510, the loop "for move_ in moves_" from the j-th move on.
RECURSIVE replies_run(_, _, _, _, _)
replies_run(run, current_moves, square_, moves_, j) ==
    IF j > Len(moves_) THEN run
    ELSE LET move_data_ == MoveData(run.frame, square_, moves_[j])
             made == made_dummy_move(run.frame, current_moves, square_, moves_[j], "none")
             asked == checkmate_square_after(made)
             insuffient == run.insuffient /\ checkmate_square(made) = -1
             undone == [frame |-> undone_dummy_move(asked, square_, moves_[j], move_data_),
                        insuffient |-> insuffient]
         IN  IF ~insuffient THEN undone
             ELSE replies_run(undone, current_moves, square_, moves_, j + 1)

\* Lines 496-510, the loop "for square_ in self" over the entries of
\* opponent_moves from the i-th on; kings are passed over.
RECURSIVE opponent_run(_, _, _, _)
opponent_run(run, current_moves, opponent_moves, i) ==
    IF i > Len(opponent_moves) THEN run
    ELSE IF opponent_moves[i].piece.type = "king"
         THEN opponent_run(run, current_moves, opponent_moves, i + 1)
         ELSE opponent_run(replies_run(run, current_moves,
                                       square_of(run.frame.grid, opponent_moves[i].piece),
                                       opponent_moves[i].moves, 1),
                           current_moves, opponent_moves, i + 1)

\* Lines 488-513 for one dummy move of the side to move: _make_move,
\* invert_turn, the search, _undo_move, invert_turn.
dummy_move_run(run, current_moves, square, move, kind) ==
    LET move_data == MoveData(run.frame, square, move)
        inverted == invert_turn(made_dummy_move(run.frame, current_moves, square, move, kind))
        searched ==
            IF is_nfold_repetition(inverted.position_counts, 5)
               \/ is_nmove_rule(inverted.moves, 75)
            THEN [frame |-> inverted, insuffient |-> run.insuffient]
            ELSE opponent_run([frame |-> get_moves_after(inverted, 0),
                               insuffient |-> run.insuffient],
                              current_moves, get_moves(inverted), 1)
    IN  [frame |-> invert_turn(undone_dummy_move(searched.frame, square, move, move_data)),
         insuffient |-> searched.insuffient]

\* The dummy moves in the order of lines 477-487: square by square, move by
\* move, promotion piece by promotion piece.
RECURSIVE dummy_moves(_, _, _, _)
dummy_moves(b, current_moves, i, j) ==
    IF i > Len(current_moves) THEN <<>>
    ELSE IF j > Len(current_moves[i].moves) THEN dummy_moves(b, current_moves, i + 1, 1)
         ELSE LET square == square_of(b.grid, current_moves[i].piece)
                  move == current_moves[i].moves[j]
                  kinds == promotion_pieces(b, square, move)
              IN  [k \in 1 .. Len(kinds) |-> <<square, move, kinds[k]>>]
                  \o dummy_moves(b, current_moves, i, j + 1)

\* Lines 476-515: the dummy moves one after the other until insuffient is
\* False.
RECURSIVE search_run(_, _, _, _)
search_run(run, current_moves, tries, i) ==
    IF i > Len(tries) \/ ~run.insuffient THEN run
    ELSE search_run(dummy_move_run(run, current_moves, tries[i][1], tries[i][2], tries[i][3]),
                    current_moves, tries, i + 1)

\* Board.is_timeout_vs_insufficient_material, as the run it makes.
timeout_search_run(f, current_moves) ==
    IF can_still_mate(f) THEN [frame |-> f, insuffient |-> FALSE]
    ELSE search_run([frame |-> f, insuffient |-> TRUE], current_moves,
                    dummy_moves(f, current_moves, 1, 1), 1)

(***************************************************************************)
(* pgn.py: PGNBoard, the board on which PGNGenerator replays the game.     *)
(***************************************************************************)
\* utils.FILE_STRING and str(rank + 1)
FILE_STRING == <<"a", "b", "c", "d", "e", "f", "g", "h">>
RankString(rank) == <<"1", "2", "3", "4", "5", "6", "7", "8">>[rank + 1]

\* PGNBoard(): Board.__init__
PGNBoard == MkBoard(InitialGrid, WHITE, <<>>, FALSE)

\* PGNBoard.make_move
PGNBoard_make_move(pb, move) ==
    LET from_square == SquareAt(move.from_before.file, move.from_before.rank)
        to_square == SquareAt(move.to_before.file, move.to_before.rank)
        rank == IF pb.turn = WHITE THEN FILES - 3 - 1 ELSE 3
        en_passant_square == SquareAt(FileOf(to_square), rank)
        kingside == FileOf(to_square) = FILES - 2
        rook_square == SquareAt(IF kingside THEN FILES - 1 ELSE 0, RankOf(from_square))
        rook_dest_square ==
            SquareAt(IF kingside THEN FILES - 3 ELSE 4, RankOf(from_square))
        g1 == [pb.grid EXCEPT ![from_square] = NoPiece]
        g2 == [g1 EXCEPT ![to_square] = move.to_after.piece]
        g3 == [g2 EXCEPT ![en_passant_square] = IF move.en_passant THEN NoPiece ELSE @]
        g4 == [g3 EXCEPT ![rook_square] = IF move.castling THEN NoPiece ELSE @]
        rook == g3[rook_square]
        g5 == [g4 EXCEPT ![rook_dest_square] = IF move.castling THEN rook ELSE @]
    IN  MkBoard(g5, Opponent(pb.turn), Append(pb.moves, move), FALSE)

\* The pgn_board of get_algebraic_notation_string once the first n moves of ms
\* have been written.
RECURSIVE pgn_board(_, _)
pgn_board(ms, n) ==
    IF n = 0 THEN PGNBoard ELSE PGNBoard_make_move(pgn_board(ms, n - 1), ms[n])

\* PGNBoard.get_source_square_notation.  The two flags only ever go from False
\* to True, so the early return of line 119 is taken exactly when both are
\* True by the end of the loop.
get_source_square_notation(pb, src_file, src_rank, dest_file, dest_rank, is_capture) ==
    LET src_square == SquareAt(src_file, src_rank)
        src_piece == pb.grid[src_square]
        dest_square == SquareAt(dest_file, dest_rank)
        reaching == {square \in Squares :
                        /\ square # src_square
                        /\ ~Empty(pb.grid[square])
                        /\ pb.grid[square].type = src_piece.type
                        /\ InSeq(dest_square, move_methods(pb, square))}
        file_ambiguity == \E square \in reaching : FileOf(square) # src_file
        rank_ambiguity == \E square \in reaching : RankOf(square) # src_rank
    IN  IF file_ambiguity /\ rank_ambiguity
        THEN <<FILE_STRING[src_file + 1], RankString(src_rank)>>
        ELSE IF file_ambiguity \/ (src_piece.type = "pawn" /\ is_capture)
        THEN <<FILE_STRING[src_file + 1]>>
        ELSE IF rank_ambiguity THEN <<RankString(src_rank)>>
        ELSE <<>>

\* get_algebraic_notation_string, lines 220-226: the src_string of move n of ms.
src_string(ms, n) ==
    get_source_square_notation(
        pgn_board(ms, n - 1),
        ms[n].from_before.file, ms[n].from_before.rank,
        ms[n].to_before.file, ms[n].to_before.rank,
        ~Empty(ms[n].to_before.piece) \/ ms[n].en_passant)

(***************************************************************************)
(* The game: DisplayBoard and the Board it owns.                           *)
(***************************************************************************)
VARIABLES
    grid,               \* Board.board: the piece on every square
    turn,               \* Board.turn
    moves,              \* Board.moves
    captured,           \* Board.captured
    position_counts,    \* Board.position_counts
    current_moves,      \* Board.current_moves
    selected_square,    \* DisplayBoard.selected_square
    possible_moves,     \* DisplayBoard.possible_moves
    confirm_deselect,   \* DisplayBoard.confirm_deselect
    promotion,          \* DisplayBoard.promotion: the square of the open menu
    result,             \* DisplayBoard.result: the outcome text
    winner,             \* DisplayBoard.winner
    checkmated,         \* DisplayBoard.checkmate_square
    stalemate_square,   \* DisplayBoard.stalemate_square
    can_claim_draw,     \* DisplayBoard.can_claim_draw
    accept_draw_active, \* DisplayBoard.accept_draw_active
    initial_coordinates,\* DisplayBoard.initial_coordinates
    drag_coordinates    \* DisplayBoard.drag_coordinates

vars ==
    <<grid, turn, moves, captured, position_counts, current_moves,
      selected_square, possible_moves, confirm_deselect, promotion, result,
      winner, checkmated, stalemate_square, can_claim_draw, accept_draw_active,
      initial_coordinates, drag_coordinates>>

\* Python's None, for a square, a colour or a result.
None == 0 - 1
NoResult == "none"
\* Python's None where a pair of coordinates is expected.
NoCoordinates == <<>>

Board == MkBoard(grid, turn, moves, FALSE)

\* DisplayBoard.finished
finished == result # NoResult

SQUARE_WIDTH == 60
BOARD_MIN_X == 260
BOARD_MIN_Y == 50
INSIGNIFICANT_DRAG_RADIUS == 5

\* DisplayBoard.__init__: the bounds of the board
min_x == BOARD_MIN_X
min_y == BOARD_MIN_Y
max_x == min_x + SQUARE_WIDTH * FILES
max_y == min_y + SQUARE_WIDTH * RANKS

\* Settings.reverse, "Automatically flip board": the games are played with
\* the setting the home screen starts with.
reverse == TRUE

\* DisplayBoard.in_reverse
in_reverse == reverse /\ turn = BLACK

\* list.__getitem__ on a list of length n: the position read, counted from
\* the front, or n when IndexError is raised.
ListIndex(i, n) ==
    IF 0 <= i /\ i < n THEN i
    ELSE IF 0 - n <= i /\ i < 0 THEN n + i
    ELSE n

\* Board.get: self.board[RANKS - rank - 1][file]; the rows of self.board run
\* from rank 7 down to rank 0.  None stands for the IndexError.
Board_get(file, rank) ==
    LET row == ListIndex(RANKS - rank - 1, RANKS)
        column == ListIndex(file, FILES)
    IN  IF row = RANKS \/ column = FILES THEN None
        ELSE SquareAt(column, RANKS - 1 - row)

\* DisplayBoard.get_square
get_square(coordinates) ==
    LET x == coordinates[1]
        y == coordinates[2]
        file == (x - min_x) \div SQUARE_WIDTH
        rank == RANKS - 1 - ((y - min_y) \div SQUARE_WIDTH)
    IN  IF coordinates = NoCoordinates THEN None
        ELSE IF ~(min_x <= x /\ x <= max_x /\ min_y <= y /\ y <= max_y) THEN None
        ELSE IF in_reverse THEN Board_get(FILES - 1 - file, RANKS - 1 - rank)
        ELSE Board_get(file, rank)

CapturedKinds == {"pawn", "knight", "bishop", "rook", "queen"}

\* current_moves[piece]
MovesOf(cm, piece) ==
    LET i == CHOOSE i \in 1 .. Len(cm) : cm[i].piece = piece
    IN  cm[i].moves

\* list.clear() on the list that possible_moves shares with current_moves.
ClearMovesOf(cm, piece) ==
    [i \in 1 .. Len(cm) |->
        IF cm[i].piece = piece THEN [cm[i] EXCEPT !.moves = <<>>] ELSE cm[i]]

\* Board.__init__ and DisplayBoard.__init__
Init ==
    /\ grid = InitialGrid
    /\ turn = WHITE
    /\ moves = <<>>
    /\ captured = [c \in {WHITE, BLACK} |-> [k \in CapturedKinds |-> 0]]
    /\ current_moves = get_moves(MkBoard(InitialGrid, WHITE, <<>>, FALSE))
    /\ position_counts =
          record_position(MkBoard(InitialGrid, WHITE, <<>>, FALSE),
                          get_moves(MkBoard(InitialGrid, WHITE, <<>>, FALSE)),
                          [k \in {} |-> 0])
    /\ selected_square = None
    /\ possible_moves = <<>>
    /\ confirm_deselect = FALSE
    /\ promotion = None
    /\ result = NoResult
    /\ winner = None
    /\ checkmated = None
    /\ stalemate_square = None
    /\ can_claim_draw = FALSE
    /\ accept_draw_active = FALSE
    /\ initial_coordinates = NoCoordinates
    /\ drag_coordinates = NoCoordinates

\* A moved_grid whose castling puts the rook on the square the king has left
\* (file 4) instead of the square the king has passed over.
moved_grid_rook_astray(b, from, square, promotion_piece) ==
    LET castling == is_castling_unvalidated(b, from, square)
        kingside == FileOf(square) = 6
        rook_square == SquareAt(IF kingside THEN FILES - 1 ELSE 0, RankOf(square))
        new_rook_square == SquareAt(4, RankOf(square))
        g1 == [b.grid EXCEPT ![SquareAt(FileOf(square), RankOf(from))] =
                  IF is_en_passant(b, from, square) THEN NoPiece ELSE @]
        g2 == [g1 EXCEPT ![square] =
                  IF is_promotion(b, from, square) THEN promotion_piece
                  ELSE b.grid[from]]
        g3 == [g2 EXCEPT ![from] = NoPiece]
        g4 == [g3 EXCEPT ![rook_square] = IF castling THEN NoPiece ELSE @]
    IN  [g4 EXCEPT ![new_rook_square] = IF castling THEN b.grid[rook_square] ELSE @]

\* A moved_grid whose castling leaves a king on the square it started from.
moved_grid_king_left_behind(b, from, square, promotion_piece) ==
    LET ep == is_en_passant(b, from, square)
        castling == is_castling_unvalidated(b, from, square)
        en_passant_victim == SquareAt(FileOf(square), RankOf(from))
        kingside == FileOf(square) = 6
        rook_square == SquareAt(IF kingside THEN FILES - 1 ELSE 0, RankOf(square))
        new_rook_square == SquareAt(IF kingside THEN 5 ELSE 3, RankOf(square))
        g1 == [b.grid EXCEPT ![en_passant_victim] = IF ep THEN NoPiece ELSE @]
        g2 == [g1 EXCEPT ![square] =
                  IF is_promotion(b, from, square) THEN promotion_piece
                  ELSE b.grid[from]]
        g3 == [g2 EXCEPT ![new_rook_square] =
                  IF castling THEN b.grid[rook_square] ELSE @]
        g4 == [g3 EXCEPT ![rook_square] = IF castling THEN NoPiece ELSE @]
    IN  [g4 EXCEPT ![from] = IF castling THEN @ ELSE NoPiece]

\* The grid after lines 226-255 of DisplayBoard.make_move.
moved_grid(b, from, square, promotion_piece) ==
    LET ep == is_en_passant(b, from, square)
        castling == is_castling_unvalidated(b, from, square)
        en_passant_victim == SquareAt(FileOf(square), RankOf(from))
        kingside == FileOf(square) = 6
        rook_square == SquareAt(IF kingside THEN FILES - 1 ELSE 0, RankOf(square))
        new_rook_square == SquareAt(IF kingside THEN 5 ELSE 3, RankOf(square))
        g1 == [b.grid EXCEPT ![en_passant_victim] = IF ep THEN NoPiece ELSE @]
        g2 == [g1 EXCEPT ![square] =
                  IF is_promotion(b, from, square) THEN promotion_piece
                  ELSE b.grid[from]]
        g3 == [g2 EXCEPT ![new_rook_square] =
                  IF castling THEN b.grid[rook_square] ELSE @]
        g4 == [g3 EXCEPT ![rook_square] = IF castling THEN NoPiece ELSE @]
    IN  [g4 EXCEPT ![from] = NoPiece]

\* Tallies that miss the pawn taken en passant.
moved_captured_en_passant_untallied(b, tally, from, square) ==
    IF ~Empty(b.grid[square]) /\ b.grid[square].colour # b.turn
    THEN add_capture(tally, b.grid[square]) ELSE tally

\* The tallies after lines 226-253 of DisplayBoard.make_move.
moved_captured(b, tally, from, square) ==
    LET en_passant_victim == SquareAt(FileOf(square), RankOf(from))
        c1 == IF is_en_passant(b, from, square)
              THEN add_capture(tally, b.grid[en_passant_victim]) ELSE tally
    IN  IF ~Empty(b.grid[square]) /\ b.grid[square].colour # b.turn
        THEN add_capture(c1, b.grid[square]) ELSE c1

\* DisplayBoard.end, with the deselect it calls.
end(outcome_text, colour) ==
    /\ winner' = colour
    /\ selected_square' = None
    /\ initial_coordinates' = NoCoordinates
    /\ drag_coordinates' = NoCoordinates
    /\ possible_moves' = <<>>
    /\ confirm_deselect' = FALSE
    /\ result' = outcome_text

\* A make_move that tests the 75 move rule before the fivefold repetition.
commit_move_rule_first(from, g, move, mate, cm, pointer) ==
    LET after == MkBoard(g, Opponent(turn), Append(moves, move), FALSE)
        counts == record_position(after, cm, position_counts)
    IN  /\ grid' = g
        /\ promotion' = None
        /\ checkmated' = mate
        /\ moves' = Append(moves, move)
        /\ IF mate # None
           THEN /\ end("Checkmate", turn)
                /\ current_moves' = ClearMovesOf(current_moves, grid[from])
                /\ UNCHANGED <<turn, position_counts, stalemate_square,
                               can_claim_draw, accept_draw_active>>
           ELSE /\ turn' = Opponent(turn)
                /\ current_moves' = cm
                /\ position_counts' = counts
                /\ IF is_nmove_rule(Append(moves, move), 75)
                   THEN /\ end("75 Move Rule", winner)
                        /\ UNCHANGED <<stalemate_square, can_claim_draw,
                                       accept_draw_active>>
                   ELSE IF is_nfold_repetition(counts, 5)
                   THEN /\ end("Fivefold Repetition", winner)
                        /\ UNCHANGED <<stalemate_square, can_claim_draw,
                                       accept_draw_active>>
                   ELSE IF is_insufficient_material(g)
                   THEN /\ end("Insufficient Material", winner)
                        /\ UNCHANGED <<stalemate_square, can_claim_draw,
                                       accept_draw_active>>
                   ELSE IF \A i \in 1 .. Len(cm) : Len(cm[i].moves) = 0
                   THEN /\ end("Stalemate", winner)
                        /\ stalemate_square' = get_king_square(after, FALSE)
                        /\ UNCHANGED <<can_claim_draw, accept_draw_active>>
                   ELSE /\ selected_square' = None
                        /\ possible_moves' = <<>>
                        /\ can_claim_draw' =
                              (is_nfold_repetition(counts, 3)
                               \/ is_nmove_rule(Append(moves, move), 50))
                        /\ accept_draw_active' = FALSE
                        /\ initial_coordinates' = pointer[1]
                        /\ drag_coordinates' = pointer[2]
                        /\ UNCHANGED <<confirm_deselect, result, winner,
                                       stalemate_square>>

\* DisplayBoard.make_move from line 258 on: the Move is built, mate is the
\* value of checkmate_square read before the move is added and the turn is
\* inverted, and cm the value set_moves stores when there is no mate.
\* make_move itself writes neither initial_coordinates nor drag_coordinates:
\* pointer is the pair of values the calling handler gives them.
commit_move(from, g, move, mate, cm, pointer) ==
    LET after == MkBoard(g, Opponent(turn), Append(moves, move), FALSE)
        counts == record_position(after, cm, position_counts)
    IN  /\ grid' = g
        /\ promotion' = None
        /\ checkmated' = mate
        /\ moves' = Append(moves, move)
        /\ IF mate # None
           THEN /\ end("Checkmate", turn)
                /\ current_moves' = ClearMovesOf(current_moves, grid[from])
                /\ UNCHANGED <<turn, position_counts, stalemate_square,
                               can_claim_draw, accept_draw_active>>
           ELSE /\ turn' = Opponent(turn)
                /\ current_moves' = cm
                /\ position_counts' = counts
                /\ IF is_nfold_repetition(counts, 5)
                   THEN /\ end("Fivefold Repetition", winner)
                        /\ UNCHANGED <<stalemate_square, can_claim_draw,
                                       accept_draw_active>>
                   ELSE IF is_nmove_rule(Append(moves, move), 75)
                   THEN /\ end("75 Move Rule", winner)
                        /\ UNCHANGED <<stalemate_square, can_claim_draw,
                                       accept_draw_active>>
                   ELSE IF is_insufficient_material(g)
                   THEN /\ end("Insufficient Material", winner)
                        /\ UNCHANGED <<stalemate_square, can_claim_draw,
                                       accept_draw_active>>
                   ELSE IF \A i \in 1 .. Len(cm) : Len(cm[i].moves) = 0
                   THEN /\ end("Stalemate", winner)
                        /\ stalemate_square' = get_king_square(after, FALSE)
                        /\ UNCHANGED <<can_claim_draw, accept_draw_active>>
                   ELSE /\ selected_square' = None
                        /\ possible_moves' = <<>>
                        /\ can_claim_draw' =
                              (is_nfold_repetition(counts, 3)
                               \/ is_nmove_rule(Append(moves, move), 50))
                        /\ accept_draw_active' = FALSE
                        /\ initial_coordinates' = pointer[1]
                        /\ drag_coordinates' = pointer[2]
                        /\ UNCHANGED <<confirm_deselect, result, winner,
                                       stalemate_square>>

\* The Move that add_move appends once the grid has become g.
made_move(from, square, g) ==
    Move(SquareCopy(grid, from), SquareCopy(grid, square),
         SquareCopy(g, from), SquareCopy(g, square),
         is_castling_unvalidated(Board, from, square),
         is_en_passant(Board, from, square),
         is_promotion(Board, from, square))

\* A play_move whose set_moves runs before add_move has appended the move.
play_move_before_add_move(from, square, g, pointer) ==
    /\ captured' = moved_captured(Board, captured, from, square)
    /\ commit_move(from, g, made_move(from, square, g),
                   checkmate_square(MkBoard(g, turn, moves, FALSE)),
                   get_moves(MkBoard(g, Opponent(turn), moves, FALSE)),
                   pointer)

\* DisplayBoard.make_move from line 226 on, with the grid g of the moved pieces.
play_move(from, square, g, pointer) ==
    /\ captured' = moved_captured(Board, captured, from, square)
    /\ commit_move(from, g, made_move(from, square, g),
                   checkmate_square(MkBoard(g, turn, moves, FALSE)),
                   get_moves(MkBoard(g, Opponent(turn),
                                     Append(moves, made_move(from, square, g)),
                                     FALSE)),
                   pointer)

\* DisplayBoard.make_move; promotion_piece is NoPiece when none is given.
make_move(square, promotion_piece, pointer) ==
    LET from == selected_square
        ep == is_en_passant(Board, from, square)
        en_passant_victim == SquareAt(FileOf(square), RankOf(from))
    IN  IF is_promotion(Board, from, square) /\ promotion_piece = NoPiece
        THEN \* the menu opens; the en passant lines above it have run
             /\ promotion' = square
             /\ grid' = IF ep THEN [grid EXCEPT ![en_passant_victim] = NoPiece] ELSE grid
             /\ captured' = IF ep THEN add_capture(captured, grid[en_passant_victim])
                            ELSE captured
             /\ initial_coordinates' = pointer[1]
             /\ drag_coordinates' = pointer[2]
             /\ UNCHANGED <<turn, moves, position_counts, current_moves,
                            selected_square, possible_moves, confirm_deselect,
                            result, winner, checkmated, stalemate_square,
                            can_claim_draw, accept_draw_active>>
        ELSE play_move(from, square,
                       moved_grid(Board, from, square, promotion_piece), pointer)

(***************************************************************************)
(* The players' input.  The games explored are the ones that follow a line *)
(* of the book below: at every point the squares that may be clicked are   *)
(* the source and destination squares of the book moves that continue the  *)
(* game played so far.  Coordinates are (file, rank), both from 0.         *)
(***************************************************************************)
M(from_file, from_rank, to_file, to_rank) ==
    <<SquareAt(from_file, from_rank), SquareAt(to_file, to_rank)>>

\* How many times the knights may go out and back in the shuffle lines.
MaxRounds == 5

\* Nf3 Nf6 Ng1 Ng8 and Nc3 Nc6 Nb1 Nb8: four plies that restore the position.
ShuffleG == <<M(6, 0, 5, 2), M(6, 7, 5, 5), M(5, 2, 6, 0), M(5, 5, 6, 7)>>
ShuffleB == <<M(1, 0, 2, 2), M(1, 7, 2, 5), M(2, 2, 1, 0), M(2, 5, 1, 7)>>

\* MaxRounds rounds; round k (from 0) is ShuffleG when pattern[k % 2 + 1] is "g".
ShuffleLine(pattern) ==
    [i \in 1 .. 4 * MaxRounds |->
        IF pattern[(((i - 1) \div 4) % 2) + 1] = "g"
        THEN ShuffleG[((i - 1) % 4) + 1] ELSE ShuffleB[((i - 1) % 4) + 1]]

\* The quiet lines: no pawn moves and nothing is taken.  After
\* 1. Nc3 Nc6 2. Ne4 Ne5 3. Ng5 Ng4 the knight from g1 goes round a cycle of
\* eighteen squares while the knight from g8 goes to h6 and back, so that the
\* position after ply 6 returns every 36 plies.
QuietPreamble ==
    << M(1, 0, 2, 2), M(1, 7, 2, 5), M(2, 2, 4, 3), M(2, 5, 4, 4),
     M(4, 3, 6, 4), M(4, 4, 6, 3) >>

QuietCycle ==
    << SquareAt(6, 0), SquareAt(5, 2), SquareAt(3, 3), SquareAt(1, 2),
       SquareAt(0, 4), SquareAt(2, 3), SquareAt(0, 2), SquareAt(1, 4),
       SquareAt(2, 2), SquareAt(0, 3), SquareAt(1, 5), SquareAt(3, 4),
       SquareAt(1, 3), SquareAt(0, 5), SquareAt(2, 4), SquareAt(3, 2),
       SquareAt(5, 3), SquareAt(7, 2) >>

QuietMove(i) ==
    IF i <= Len(QuietPreamble) THEN QuietPreamble[i]
    ELSE LET j == i - Len(QuietPreamble) - 1
             k == (j \div 2) % Len(QuietCycle)
         IN  IF j % 2 = 0
             THEN <<QuietCycle[k + 1], QuietCycle[((k + 1) % Len(QuietCycle)) + 1]>>
             ELSE IF (j \div 2) % 2 = 0 THEN M(6, 7, 7, 5) ELSE M(7, 5, 6, 7)

\* 150 quiet plies; the position after ply 6 occurs for the fifth time at ply 150.
QuietLine == [i \in 1 .. 150 |-> QuietMove(i)]

\* The same, but at ply 150 the knight goes from h6 to f5: 150 quiet plies and
\* no position has occurred five times.
QuietLineAstray == [QuietLine EXCEPT ![150] = M(7, 5, 5, 4)]

\* The same for 77 plies; then the black knight goes to f5 and on between f5
\* and h4: after 100 quiet plies no position has occurred three times.
QuietLineFresh ==
    [i \in 1 .. 100 |->
        IF i < 78 \/ i % 2 = 1 THEN QuietMove(i)
        ELSE IF i = 78 THEN M(7, 5, 5, 4)
        ELSE IF ((i - 80) \div 2) % 2 = 0 THEN M(5, 4, 7, 3) ELSE M(7, 3, 5, 4)]

Lines ==
    { ShuffleLine(<<"g", "g">>), ShuffleLine(<<"b", "b">>),
      ShuffleLine(<<"g", "b">>), ShuffleLine(<<"b", "g">>),
      QuietLine, QuietLineAstray, QuietLineFresh,
      \* 1. e3 a5 2. Qh5 Ra6 3. Qxa5 h5 4. h4 Rah6 5. Qxc7 f6 6. Qxd7+ Kf7
      \* 7. Qxb7 Qd3 8. Qxb8 Qh7 9. Qxc8 Kg6 10. Qe6, stalemate
      << M(4, 1, 4, 2), M(0, 6, 0, 4), M(3, 0, 7, 4), M(0, 7, 0, 5),
       M(7, 4, 0, 4), M(7, 6, 7, 4), M(7, 1, 7, 3), M(0, 5, 7, 5),
       M(0, 4, 2, 6), M(5, 6, 5, 5), M(2, 6, 3, 6), M(4, 7, 5, 6),
       M(3, 6, 1, 6), M(3, 7, 3, 2), M(1, 6, 1, 7), M(3, 2, 7, 6),
       M(1, 7, 2, 7), M(5, 6, 6, 5), M(2, 7, 4, 5) >>,
      \* 1. e4 d5 2. exd5 Qxd5 3. Qh5 Qxa2 4. Qxh7 Qxb1 5. Qxg8 Rxh2
      \* 6. Rxa7 Rxg2 7. Qxg7 Rxg1 8. Rxg1 Qxc2 9. Rxb7 Qxb2 10. Rxb8 Bxg7
      \* 11. Rxg7 Rxb8 12. Bxb2 Rxb2 13. Rxf7 Rxd2 14. Bh3 Rxf2 15. Kxf2 Kd8
      \* 16. Rxe7 Bxh3 17. Rxc7 Kxc7: king against king and bishop
      << M(4, 1, 4, 3), M(3, 6, 3, 4), M(4, 3, 3, 4), M(3, 7, 3, 4),
       M(3, 0, 7, 4), M(3, 4, 0, 1), M(7, 4, 7, 6), M(0, 1, 1, 0),
       M(7, 6, 6, 7), M(7, 7, 7, 1), M(0, 0, 0, 6), M(7, 1, 6, 1),
       M(6, 7, 6, 6), M(6, 1, 6, 0), M(7, 0, 6, 0), M(1, 0, 2, 1),
       M(0, 6, 1, 6), M(2, 1, 1, 1), M(1, 6, 1, 7), M(5, 7, 6, 6),
       M(6, 0, 6, 6), M(0, 7, 1, 7), M(2, 0, 1, 1), M(1, 7, 1, 1),
       M(6, 6, 5, 6), M(1, 1, 3, 1), M(5, 0, 7, 2), M(3, 1, 5, 1),
       M(4, 0, 5, 1), M(4, 7, 3, 7), M(5, 6, 4, 6), M(2, 7, 7, 2),
       M(4, 6, 2, 6), M(3, 7, 2, 6) >>,
      \* 1. Nf3 Nf6 2. g3 g6 3. Bg2 Bg7 4. O-O O-O
      << M(6, 0, 5, 2), M(6, 7, 5, 5), M(6, 1, 6, 2), M(6, 6, 6, 5),
         M(5, 0, 6, 1), M(5, 7, 6, 6), M(4, 0, 6, 0), M(4, 7, 6, 7) >>,
      \* 1. Nf3 Nf6 2. Rg1 Rg8 3. Rh1 Rh8 4. Ng1 Ng8 5. Nf3
      << M(6, 0, 5, 2), M(6, 7, 5, 5), M(7, 0, 6, 0), M(7, 7, 6, 7),
         M(6, 0, 7, 0), M(6, 7, 7, 7), M(5, 2, 6, 0), M(5, 5, 6, 7),
         M(6, 0, 5, 2) >>,
      \* 1. Nf3 Nf6 2. g3 g6 3. Bg2 Bg7 4. Rg1 Rg8 5. Rh1 Rh8 6. O-O?
      << M(6, 0, 5, 2), M(6, 7, 5, 5), M(6, 1, 6, 2), M(6, 6, 6, 5),
         M(5, 0, 6, 1), M(5, 7, 6, 6), M(7, 0, 6, 0), M(7, 7, 6, 7),
         M(6, 0, 7, 0), M(6, 7, 7, 7), M(4, 0, 6, 0) >>,
      \* 1. Nf3 h5 2. e3 h4 3. Be2 h3 4. Nc3 hxg2 5. O-O
      << M(6, 0, 5, 2), M(7, 6, 7, 4), M(4, 1, 4, 2), M(7, 4, 7, 3),
         M(5, 0, 4, 1), M(7, 3, 7, 2), M(1, 0, 2, 2), M(7, 2, 6, 1),
         M(4, 0, 6, 0) >>,
      \* 1. d4 h5 2. h3 h4 3. a3 f6 4. b3 Kf7 5. c3 Kg6 6. a4 Kh5 7. Qd3 a6
      \* 8. g4+ hxg3 e.p.
      << M(3, 1, 3, 3), M(7, 6, 7, 4), M(7, 1, 7, 2), M(7, 4, 7, 3),
         M(0, 1, 0, 2), M(5, 6, 5, 5), M(1, 1, 1, 2), M(4, 7, 5, 6),
         M(2, 1, 2, 2), M(5, 6, 6, 5), M(0, 2, 0, 3), M(6, 5, 7, 4),
         M(3, 0, 3, 2), M(0, 6, 0, 5), M(6, 1, 6, 3), M(7, 3, 6, 2) >>,
      \* 1. f3 e5 2. g4 Qh4#
      << M(5, 1, 5, 2), M(4, 6, 4, 4), M(6, 1, 6, 3), M(3, 7, 7, 3) >>,
      \* 1. e4 e5 2. Qh5 Nc6 3. Bc4 Nf6 4. Qxf7#
      << M(4, 1, 4, 3), M(4, 6, 4, 4), M(3, 0, 7, 4), M(1, 7, 2, 5),
         M(5, 0, 2, 3), M(6, 7, 5, 5), M(7, 4, 5, 6) >>,
      \* 1. e4 a6 2. e5 d5 3. exd6 e.p. a5 4. dxc7 a4 5. cxb8=Q Rxb8
      << M(4, 1, 4, 3), M(0, 6, 0, 5), M(4, 3, 4, 4), M(3, 6, 3, 4),
         M(4, 4, 3, 5), M(0, 5, 0, 4), M(3, 5, 2, 6), M(0, 4, 0, 3),
         M(2, 6, 1, 7), M(0, 7, 1, 7) >>,
      \* 1. e4 a6 2. e5 d5 3. a3 a5 4. exd6?
      << M(4, 1, 4, 3), M(0, 6, 0, 5), M(4, 3, 4, 4), M(3, 6, 3, 4),
         M(0, 1, 0, 2), M(0, 5, 0, 4), M(4, 4, 3, 5) >>,
      \* 1. a3 e5 2. a4 e4 3. d4 exd3 e.p. 4. Qxd3
      << M(0, 1, 0, 2), M(4, 6, 4, 4), M(0, 2, 0, 3), M(4, 4, 4, 3),
         M(3, 1, 3, 3), M(4, 3, 3, 2), M(3, 0, 3, 2) >>,
      \* 1. d4 d5 2. Bf4 Bf5 3. Nc3 Nc6 4. Qd2 Qd7 5. O-O-O O-O-O
      << M(3, 1, 3, 3), M(3, 6, 3, 4), M(2, 0, 5, 3), M(2, 7, 5, 4),
         M(1, 0, 2, 2), M(1, 7, 2, 5), M(3, 0, 3, 1), M(3, 7, 3, 6),
         M(4, 0, 2, 0), M(4, 7, 2, 7) >>,
      \* 1. d3 a6 2. Nf3 a5 3. Nfd2 a4 4. Nc3
      << M(3, 1, 3, 2), M(0, 6, 0, 5), M(6, 0, 5, 2), M(0, 5, 0, 4),
         M(5, 2, 3, 1), M(0, 4, 0, 3), M(1, 0, 2, 2) >>,
      \* 1. e3 a6 2. Ne2 a5 3. Nbc3 a4 4. Ng3
      << M(4, 1, 4, 2), M(0, 6, 0, 5), M(6, 0, 4, 1), M(0, 5, 0, 4),
         M(1, 0, 2, 2), M(0, 4, 0, 3), M(4, 1, 6, 2) >>,
      \* 1. e3 a6 2. Ne2 a5 3. Nec3
      << M(4, 1, 4, 2), M(0, 6, 0, 5), M(6, 0, 4, 1), M(0, 5, 0, 4),
         M(4, 1, 2, 2) >>,
      \* 1. Nf3 Nc6 2. Ne5 Nxe5
      << M(6, 0, 5, 2), M(1, 7, 2, 5), M(5, 2, 4, 4), M(2, 5, 4, 4) >>,
      \* 1. a4 b5 2. axb5 e5 3. Rxa7 Qe7 4. Rxc7 Ra6 5. Rxd7 Qd6 6. Rxf7 Bb7
      \* 7. Rxg7 Bf3 8. Nxf3 Kd8 9. Ne5 Ra3 10. Rxg8 Kc8 11. Rxh8 Qc7 12. Nxa3 h6
      \* 13. Rxh6 Nd7 14. Nxd7 Qg3 15. hxg3 Bd6 16. d3 Kc7 17. Rxd6 Kb7:
      \* Black is left with king and bishop, first with 16. f3 Bxg3 mate at
      \* hand, then without a mate, then with the bare king.
      << M(0, 1, 0, 3), M(1, 6, 1, 4), M(0, 3, 1, 4), M(4, 6, 4, 4),
         M(0, 0, 0, 6), M(3, 7, 4, 6), M(0, 6, 2, 6), M(0, 7, 0, 5),
         M(2, 6, 3, 6), M(4, 6, 3, 5), M(3, 6, 5, 6), M(2, 7, 1, 6),
         M(5, 6, 6, 6), M(1, 6, 5, 2), M(6, 0, 5, 2), M(4, 7, 3, 7),
         M(5, 2, 4, 4), M(0, 5, 0, 2), M(6, 6, 6, 7), M(3, 7, 2, 7),
         M(6, 7, 7, 7), M(3, 5, 2, 6), M(1, 0, 0, 2), M(7, 6, 7, 5),
         M(7, 7, 7, 5), M(1, 7, 3, 6), M(4, 4, 3, 6), M(2, 6, 6, 2),
         M(7, 1, 6, 2), M(5, 7, 3, 5), M(3, 1, 3, 2), M(2, 7, 2, 6),
         M(7, 5, 3, 5), M(2, 6, 1, 6) >> }

\* The committed moves as (source, destination) pairs.
Played ==
    [i \in 1 .. Len(moves) |->
        <<SquareAt(moves[i].from_before.file, moves[i].from_before.rank),
          SquareAt(moves[i].to_before.file, moves[i].to_before.rank)>>]

BookMoves ==
    {line[Len(moves) + 1] :
        line \in {l \in Lines : /\ Len(l) > Len(moves)
                                /\ SubSeq(l, 1, Len(moves)) = Played}}

ClickSquares == UNION {{m[1], m[2]} : m \in BookMoves}

\* DisplaySquare.display: the left and top of the square as it is drawn.
DrawnLeft(s) ==
    IF in_reverse THEN min_x + SQUARE_WIDTH * (FILES - 1 - FileOf(s))
    ELSE min_x + SQUARE_WIDTH * FileOf(s)

DrawnTop(s) ==
    IF in_reverse THEN min_y + SQUARE_WIDTH * RankOf(s)
    ELSE min_y + SQUARE_WIDTH * (RANKS - 1 - RankOf(s))

\* The pixel in the middle of the square as drawn, and one near its corner.
Centre(s) == <<DrawnLeft(s) + SQUARE_WIDTH \div 2, DrawnTop(s) + SQUARE_WIDTH \div 2>>
Corner(s) == <<DrawnLeft(s) + 1, DrawnTop(s) + 1>>

\* Up to this ply the pointer is also dragged and also clicks on the bounds
\* of the board; later every move is made by two clicks in the middle of
\* its squares.
MaxPointerPly == 2

\* The points clicked: the middle of a book square, and the points in line
\* with it on the right and bottom bounds of the board.
ClickPoints ==
    UNION {{Centre(s)} \cup
           (IF Len(moves) < MaxPointerPly
            THEN {<<max_x, Centre(s)[2]>>, <<Centre(s)[1], max_y>>} ELSE {}) :
              s \in ClickSquares}

\* The points the pointer is dragged to: a corner and the middle of the
\* selected square, the middle of the squares the book moves its piece to, a
\* point left of the board and the corner of the bounds of the board.
DragPoints ==
    IF Len(moves) < MaxPointerPly /\ selected_square # None
    THEN {Corner(selected_square), Centre(selected_square)}
            \cup {Centre(m[2]) : m \in {b \in BookMoves : b[1] = selected_square}}
            \cup {<<min_x - 1, min_y>>, <<max_x, max_y>>}
    ELSE {}

\* DisplayBoard.handle_click with no menu open.
handle_click(coordinates) ==
    IF finished THEN UNCHANGED vars
    ELSE /\ promotion = None
         /\ ~confirm_deselect
         /\ drag_coordinates = NoCoordinates
         /\ LET square == get_square(coordinates)
            IN  IF square = None
                THEN UNCHANGED vars
                ELSE IF square = selected_square
                THEN /\ confirm_deselect' = TRUE
                     /\ UNCHANGED <<grid, turn, moves, captured, position_counts,
                                    current_moves, selected_square, possible_moves,
                                    promotion, result, winner, checkmated,
                                    stalemate_square, can_claim_draw,
                                    accept_draw_active,
                                    initial_coordinates, drag_coordinates>>
                ELSE IF ~Empty(grid[square]) /\ grid[square].colour = turn
                THEN \* an own piece: it becomes the selection; its own square is
                     \* never one of its moves, so nothing is played
                     /\ initial_coordinates' = coordinates
                     /\ selected_square' = square
                     /\ possible_moves' = MovesOf(current_moves, grid[square])
                     /\ UNCHANGED <<grid, turn, moves, captured, position_counts,
                                    current_moves, confirm_deselect, promotion,
                                    result, winner, checkmated, stalemate_square,
                                    can_claim_draw, accept_draw_active,
                                    drag_coordinates>>
                ELSE IF InSeq(square, possible_moves)
                THEN make_move(square, NoPiece, <<coordinates, drag_coordinates>>)
                ELSE /\ initial_coordinates' = coordinates
                     /\ UNCHANGED <<grid, turn, moves, captured, position_counts,
                                    current_moves, selected_square, possible_moves,
                                    confirm_deselect, promotion, result, winner,
                                    checkmated, stalemate_square, can_claim_draw,
                                    accept_draw_active, drag_coordinates>>

\* The main loop's MOUSEBUTTONUP with confirm_deselect set: DisplayBoard.deselect.
deselect ==
    /\ confirm_deselect
    /\ selected_square' = None
    /\ initial_coordinates' = NoCoordinates
    /\ drag_coordinates' = NoCoordinates
    /\ possible_moves' = <<>>
    /\ confirm_deselect' = FALSE
    /\ UNCHANGED <<grid, turn, moves, captured, position_counts, current_moves,
                   promotion, result, winner, checkmated, stalemate_square,
                   can_claim_draw, accept_draw_active>>

\* hypot(dx, dy) <= INSIGNIFICANT_DRAG_RADIUS
Insignificant(from, to) ==
    (to[1] - from[1]) * (to[1] - from[1]) + (to[2] - from[2]) * (to[2] - from[2])
        <= INSIGNIFICANT_DRAG_RADIUS * INSIGNIFICANT_DRAG_RADIUS

\* The main loop with a button held and a square selected:
\* DisplayBoard.handle_drag.
handle_drag(coordinates) ==
    /\ selected_square # None
    /\ IF drag_coordinates = NoCoordinates
          /\ (get_square(coordinates) # selected_square
              \/ Insignificant(initial_coordinates, coordinates))
       THEN UNCHANGED vars
       ELSE IF promotion # None
       THEN UNCHANGED vars
       ELSE /\ drag_coordinates' = coordinates
            /\ confirm_deselect' = FALSE
            /\ UNCHANGED <<grid, turn, moves, captured, position_counts,
                           current_moves, selected_square, possible_moves,
                           promotion, result, winner, checkmated,
                           stalemate_square, can_claim_draw, accept_draw_active, initial_coordinates>>

\* A handle_drop that plays the piece to whatever square it is dropped on.
handle_drop_anywhere ==
    /\ drag_coordinates # NoCoordinates
    /\ IF get_square(drag_coordinates) # None /\ selected_square # None
       THEN make_move(get_square(drag_coordinates), NoPiece,
                      <<initial_coordinates, NoCoordinates>>)
       ELSE /\ selected_square' = None
            /\ possible_moves' = <<>>
            /\ drag_coordinates' = NoCoordinates
            /\ UNCHANGED <<grid, turn, moves, captured, position_counts,
                           current_moves, confirm_deselect, promotion, result,
                           winner, checkmated, stalemate_square, can_claim_draw,
                           accept_draw_active, initial_coordinates>>

\* The main loop with no button held and a drag under way:
\* DisplayBoard.handle_drop.
handle_drop ==
    /\ drag_coordinates # NoCoordinates
    /\ IF get_square(drag_coordinates) # None
          /\ InSeq(get_square(drag_coordinates), possible_moves)
       THEN make_move(get_square(drag_coordinates), NoPiece,
                      <<initial_coordinates, NoCoordinates>>)
       ELSE /\ selected_square' = None
            /\ possible_moves' = <<>>
            /\ drag_coordinates' = NoCoordinates
            /\ UNCHANGED <<grid, turn, moves, captured, position_counts,
                           current_moves, confirm_deselect, promotion, result,
                           winner, checkmated, stalemate_square, can_claim_draw,
                           accept_draw_active, initial_coordinates>>

PromotionKinds == {"queen", "rook", "bishop", "knight"}

\* A menu whose pieces are not flagged as promoted.
MenuPiece_unflagged(kind) == MkPiece(kind, turn, FILES * RANKS + Len(moves) + 1, FALSE)

\* The piece a PromotionMenu offers: made when the menu opens, one object per kind.
MenuPiece(kind) == MkPiece(kind, turn, FILES * RANKS + Len(moves) + 1, TRUE)

\* DisplayBoard.handle_click with the menu open: PromotionMenu.handle_click
\* picks a piece, closes the menu ("close") or hits neither ("miss").
promotion_click(choice) ==
    IF finished THEN UNCHANGED vars
    ELSE /\ promotion # None
         /\ IF choice \in PromotionKinds
            THEN make_move(promotion, MenuPiece(choice),
                           <<initial_coordinates, drag_coordinates>>)
            ELSE /\ promotion' = IF choice = "close" THEN None ELSE promotion
                 /\ UNCHANGED <<grid, turn, moves, captured, position_counts,
                                current_moves, selected_square, possible_moves,
                                confirm_deselect, result, winner, checkmated,
                                stalemate_square, can_claim_draw, accept_draw_active, initial_coordinates, drag_coordinates>>

\* A draw that does not test the 50 move rule.
draw_without_move_rule ==
    IF accept_draw_active
    THEN /\ end("Mutual", winner)
         /\ UNCHANGED <<grid, turn, moves, captured, position_counts,
                        current_moves, promotion, checkmated, stalemate_square,
                        can_claim_draw, accept_draw_active>>
    ELSE IF is_nfold_repetition(position_counts, 3)
    THEN /\ end("Threefold Repetition", winner)
         /\ UNCHANGED <<grid, turn, moves, captured, position_counts,
                        current_moves, promotion, checkmated, stalemate_square,
                        can_claim_draw, accept_draw_active>>
    ELSE /\ accept_draw_active' = TRUE
         /\ UNCHANGED <<grid, turn, moves, captured, position_counts,
                        current_moves, selected_square, possible_moves,
                        confirm_deselect, promotion, result, winner, checkmated,
                        stalemate_square, can_claim_draw, initial_coordinates,
                        drag_coordinates>>

\* DisplayBoard.draw
draw ==
    IF accept_draw_active
    THEN /\ end("Mutual", winner)
         /\ UNCHANGED <<grid, turn, moves, captured, position_counts,
                        current_moves, promotion, checkmated, stalemate_square,
                        can_claim_draw, accept_draw_active>>
    ELSE IF is_nfold_repetition(position_counts, 3)
    THEN /\ end("Threefold Repetition", winner)
         /\ UNCHANGED <<grid, turn, moves, captured, position_counts,
                        current_moves, promotion, checkmated, stalemate_square,
                        can_claim_draw, accept_draw_active>>
    ELSE IF is_nmove_rule(moves, 50)
    THEN /\ end("50 Move Rule", winner)
         /\ UNCHANGED <<grid, turn, moves, captured, position_counts,
                        current_moves, promotion, checkmated, stalemate_square,
                        can_claim_draw, accept_draw_active>>
    ELSE /\ accept_draw_active' = TRUE
         /\ UNCHANGED <<grid, turn, moves, captured, position_counts,
                        current_moves, selected_square, possible_moves,
                        confirm_deselect, promotion, result, winner, checkmated,
                        stalemate_square, can_claim_draw, initial_coordinates,
                        drag_coordinates>>

\* A draw text that either player can use at any time.
draw_click_by_either_player(colour) ==
    IF finished THEN UNCHANGED vars
    ELSE /\ selected_square = None
         /\ draw

\* PlayerInfo.handle_click of the player of the given colour, on the draw
\* text.  The text is clicked between moves, when no square is selected.
draw_click(colour) ==
    IF finished THEN UNCHANGED vars
    ELSE /\ selected_square = None
         /\ IF colour = turn
            THEN IF ~accept_draw_active THEN draw ELSE UNCHANGED vars
            ELSE IF accept_draw_active THEN draw ELSE UNCHANGED vars

\* DisplayBoard.resign
resign(colour) ==
    /\ end("Resignation", Opponent(colour))
    /\ UNCHANGED <<grid, turn, moves, captured, position_counts, current_moves,
                   promotion, checkmated, stalemate_square, can_claim_draw,
                   accept_draw_active>>

\* A resign text that is still live when the game is over.
resign_click_after_the_end(colour) == resign(colour)

\* PlayerInfo.handle_click on the resign text of the player of this colour.
resign_click(colour) ==
    IF finished THEN UNCHANGED vars
    ELSE /\ resign(colour)

\* A timeout that always gives the game to the opponent.
timeout_always_lost ==
    /\ end("Timeout", Opponent(turn))
    /\ UNCHANGED <<grid, turn, moves, captured, position_counts, current_moves,
                   promotion, checkmated, stalemate_square, can_claim_draw,
                   accept_draw_active>>

\* DisplayBoard.timeout
timeout ==
    /\ IF ~is_timeout_vs_insufficient_material(Board, current_moves, position_counts)
       THEN end("Timeout", Opponent(turn))
       ELSE end("Timeout vs Insufficient Material", winner)
    /\ UNCHANGED <<grid, turn, moves, captured, position_counts, current_moves,
                   promotion, checkmated, stalemate_square, can_claim_draw,
                   accept_draw_active>>

\* The main loop's "if not board.finished: board.register_time()": the time
\* that has passed uses up the clock of the side to move, or does not.
register_time(expired) ==
    IF finished THEN UNCHANGED vars
    ELSE /\ IF expired THEN timeout ELSE UNCHANGED vars

Next ==
    \/ \E coordinates \in ClickPoints : handle_click(coordinates)
    \/ deselect
    \/ \E coordinates \in DragPoints : handle_drag(coordinates)
    \/ handle_drop
    \/ \E choice \in PromotionKinds \cup {"close", "miss"} : promotion_click(choice)
    \/ \E colour \in {WHITE, BLACK} : draw_click(colour)
    \/ \E colour \in {WHITE, BLACK} : resign_click(colour)
    \/ \E expired \in BOOLEAN : register_time(expired)

Spec == Init /\ [][Next]_vars

(***************************************************************************)
(* Properties of the game.                                                 *)
(***************************************************************************)
\* A move can be chosen: the game has no result and no menu is open.
InPlay == ~finished /\ promotion = None

\* The square on which a piece stands.
SquareOf(piece) == CHOOSE s \in Squares : grid[s] = piece

\* On grid g, reached by the moves ms, a move of the side opposing colour c
\* lands on the king of colour c.
KingExposed(g, ms, c) ==
    \E s \in all_test_moves(MkBoard(g, Opponent(c), ms, TRUE)) :
        g[s].type = "king" /\ g[s].colour = c

\* The position after the side to move has played from -> square (a pawn that
\* reaches the last rank becomes a queen).
PlayedGrid(from, square) == moved_grid(Board, from, square, MenuPiece("queen"))

PlayedMoves(from, square) ==
    Append(moves, made_move(from, square, PlayedGrid(from, square)))

\* C1: in every position reached by committed moves, whatever destination
\* current_moves lists for a piece of the side to move (castling and en
\* passant destinations included), playing it gives a position in which no
\* pseudo-legal move of the opponent lands on the mover's king.
C1_LegalMovesKeepKingSafe ==
    InPlay =>
        \A i \in 1 .. Len(current_moves) :
            \A j \in 1 .. Len(current_moves[i].moves) :
                LET from == SquareOf(current_moves[i].piece)
                    square == current_moves[i].moves[j]
                IN  ~KingExposed(PlayedGrid(from, square),
                                 PlayedMoves(from, square), turn)

\* A position in which a piece of the side to move has a candidate move that
\* is not in its legal-move list: the filter has removed it.
C1_Witness ==
    /\ InPlay
    /\ \E i \in 1 .. Len(current_moves) :
          \E square \in Range(test_moves(Board, SquareOf(current_moves[i].piece))) :
              /\ ~InSeq(square, current_moves[i].moves)
              /\ KingExposed(PlayedGrid(SquareOf(current_moves[i].piece), square),
                             moves, turn)

\* The squares the pieces of colour c attack on grid g: the squares its pawns
\* capture on, empty or not, and the squares its other pieces can move to.
PawnAttacks(g, c) ==
    {SquareAt(FileOf(s) + df, RankOf(s) + (IF c = WHITE THEN 1 ELSE -1)) :
        <<s, df>> \in {<<s, df>> \in Squares \X {-1, 1} :
                          /\ g[s].type = "pawn" /\ g[s].colour = c
                          /\ OnBoard(FileOf(s) + df,
                                     RankOf(s) + (IF c = WHITE THEN 1 ELSE -1))}}

PieceAttacks(g, c) ==
    UNION {Range(test_moves(MkBoard(g, c, moves, TRUE), s)) :
              s \in {s \in Squares : /\ g[s].colour = c
                                     /\ g[s].type \notin {"pawn", "none"}}}

Attacked(g, c) == PawnAttacks(g, c) \cup PieceAttacks(g, c)

\* C2: kingside castling (king from file 4 to file 6 of its back rank) is not
\* among the king's legal moves whenever the file-5 or file-6 square of that
\* rank is occupied, or attacked by an opponent piece (a pawn attacks the
\* squares diagonally ahead of it, empty or not), or the king or the file-7
\* rook has been the mover of an earlier committed move.
C2_NoKingsideCastlingWhenBarred ==
    InPlay =>
        LET rank == IF turn = WHITE THEN 0 ELSE RANKS - 1
            king_square == SquareAt(4, rank)
            between == {SquareAt(5, rank), SquareAt(6, rank)}
            occupied == \E s \in between : ~Empty(grid[s])
            attacked == between \cap Attacked(grid, Opponent(turn)) # {}
            moved == \E i \in 1 .. Len(moves) :
                        moves[i].from_before.piece.id
                            \in {SquareAt(4, rank) + 1, SquareAt(7, rank) + 1}
        IN  (/\ grid[king_square].type = "king"
             /\ grid[king_square].colour = turn
             /\ (occupied \/ attacked \/ moved))
            => ~InSeq(SquareAt(6, rank), MovesOf(current_moves, grid[king_square]))

\* The side that answers the last committed move.
Replier == IF Len(moves) % 2 = 0 THEN WHITE ELSE BLACK

\* The position the last committed move has produced, the turn with the replier.
Resulting == MkBoard(grid, Replier, moves, FALSE)

\* C3: after a committed move, the checkmate_square that make_move has read is
\* the replier's king square exactly when that king is attacked and the
\* replier has no legal reply in the resulting position (an en passant capture
\* of the pawn that has just advanced two squares is a reply); else it is None.
C3_CheckmateIffAttackedAndNoReply ==
    (Len(moves) > 0 /\ promotion = None) =>
        checkmated =
            (IF is_check(Resulting) /\ get_all_moves(Resulting) = {}
             THEN get_king_square(Resulting, FALSE) ELSE None)

\* A pawn's advance of two squares, the square it passed over, the square it
\* landed on, and the enemy pawns that now stand beside that square.
DoubleStep(m) ==
    /\ m.from_before.piece.type = "pawn"
    /\ Abs(m.from_before.rank - m.to_before.rank) = 2

Passed(m) ==
    SquareAt(m.to_before.file, (m.from_before.rank + m.to_before.rank) \div 2)

Landing(m) == SquareAt(m.to_before.file, m.to_before.rank)

Beside(m) ==
    {s \in Squares : /\ RankOf(s) = m.to_before.rank
                     /\ Abs(FileOf(s) - m.to_before.file) = 1
                     /\ grid[s].type = "pawn"
                     /\ grid[s].colour # m.from_before.piece.colour}

\* The pawn that advanced at move k still stands where it landed, the pawn on
\* s is of the side to move and the passed-over square is empty: the capture
\* of move k's pawn in passing is still a move of the board's geometry.
StillBeside(k, s) ==
    /\ DoubleStep(moves[k])
    /\ s \in Beside(moves[k])
    /\ grid[Landing(moves[k])] = moves[k].to_after.piece
    /\ grid[s].colour = turn
    /\ Empty(grid[Passed(moves[k])])

\* C4: once a pawn has advanced two squares and stands beside an enemy pawn,
\* the legal moves of that enemy pawn in the position that follows at once
\* hold the capture onto the passed-over square (unless the capture would
\* expose its own king); in every later position, another move having been
\* committed, they do not hold it.
C4_EnPassantOnlyOnTheNextMove ==
    InPlay =>
        /\ \A s \in Squares :
              (Len(moves) > 0 /\ StillBeside(Len(moves), s)) =>
                  \/ InSeq(Passed(moves[Len(moves)]), MovesOf(current_moves, grid[s]))
                  \/ KingExposed(moved_grid(Board, s, Passed(moves[Len(moves)]), NoPiece),
                                 moves, turn)
        /\ \A k \in 1 .. Len(moves) - 1 : \A s \in Squares :
              StillBeside(k, s) =>
                  ~InSeq(Passed(moves[k]), MovesOf(current_moves, grid[s]))

\* Two moves or more after the advance the two pawns still stand side by side,
\* the capture was on offer at the move in between and was not played.
C4_Witness ==
    /\ InPlay
    /\ \E k \in 1 .. Len(moves) - 2 : \E s \in Squares :
          /\ StillBeside(k, s)
          /\ ~moves[k + 1].en_passant

\* C5: replaying the committed moves one by one on a fresh board with
\* PGNBoard.make_move leaves on each of the 64 squares a piece of the kind and
\* colour the game has there, after every prefix of the game (every prefix is
\* the move list of a reachable state) and at its end.
C5_ReplayReachesTheSameOccupants ==
    promotion = None =>
        \A s \in Squares :
            /\ pgn_board(moves, Len(moves)).grid[s].type = grid[s].type
            /\ pgn_board(moves, Len(moves)).grid[s].colour = grid[s].colour

\* The step commits a move of a king over two files.
CastlingCommitted ==
    /\ Len(moves') = Len(moves) + 1
    /\ moves'[Len(moves')].from_before.piece.type = "king"
    /\ Abs(moves'[Len(moves')].to_before.file - moves'[Len(moves')].from_before.file) = 2

\* What the step must then have done.
CastlingEffect ==
    LET m == moves'[Len(moves')]
        rank == m.from_before.rank
        kingside == m.to_before.file = 6
        king_from == SquareAt(m.from_before.file, rank)
        king_to == SquareAt(IF kingside THEN 6 ELSE 2, rank)
        rook_from == SquareAt(IF kingside THEN 7 ELSE 0, rank)
        rook_to == SquareAt(IF kingside THEN 5 ELSE 3, rank)
    IN  /\ m.to_before.file \in {2, 6}
        /\ m.to_before.rank = rank
        /\ grid[king_from].type = "king"
        /\ grid[rook_from].type = "rook"
        /\ grid'[king_to] = grid[king_from]
        /\ grid'[rook_to] = grid[rook_from]
        /\ grid'[king_from] = NoPiece
        /\ grid'[rook_from] = NoPiece
        /\ \A s \in Squares \ {king_from, king_to, rook_from, rook_to} :
              grid'[s] = grid[s]
        /\ moves' = Append(moves, m)
        /\ m.castling

\* C6: a step that commits a castling move puts the king on file 6 (kingside)
\* or file 2 (queenside), moves the corner rook in the same step from file 7
\* to file 5 or from file 0 to file 3 of that rank, empties both squares they
\* came from, changes no other square and appends exactly one Move, whose
\* castling flag is set.
C6_CastlingMovesKingAndRookAtOnce == [][CastlingCommitted => CastlingEffect]_vars

\* A castling move has just been committed on the queenside.
C6_Witness ==
    /\ Len(moves) > 0
    /\ moves[Len(moves)].castling
    /\ moves[Len(moves)].to_before.file = 2
    /\ grid[SquareAt(2, moves[Len(moves)].to_before.rank)].type = "king"

\* The game so far is the four plies of cycle played again and again.
Repeats(cycle) ==
    \A i \in 1 .. Len(moves) : Played[i] = cycle[((i - 1) % 4) + 1]

\* The four-ply sequences of the book that return to the initial position.
Cycles == {ShuffleG, ShuffleB}

\* The plies after which a cycle has been completed four and five times.
FourCompletions == 4 * 4
FiveCompletions == 5 * 4

\* C7 as stated: from the initial position, while a four-ply sequence that
\* returns to it is played again and again, is_nfold_repetition(5) is false
\* after every ply before the fifth completion of the sequence and true from
\* the fifth completion.
C7_FivefoldAtTheFifthCompletion ==
    \A cycle \in Cycles :
        (Repeats(cycle) /\ promotion = None) =>
            (is_nfold_repetition(position_counts, 5) <=> Len(moves) >= FiveCompletions)

\* C7 as the code has it: Board.__init__ records the initial position, so it
\* has occurred five times when the sequence has been completed four times;
\* is_nfold_repetition(5) is false after every ply before the fourth
\* completion and true exactly at the fourth, where the game ends.
C7_FivefoldAtTheFourthCompletion ==
    \A cycle \in Cycles :
        (Repeats(cycle) /\ promotion = None) =>
            /\ is_nfold_repetition(position_counts, 5) <=> Len(moves) >= FourCompletions
            /\ Len(moves) <= FourCompletions
            /\ (result = "Fivefold Repetition") <=> Len(moves) = FourCompletions

\* Nf3 Nf6 Ng1 Ng8 has been completed four times.
C7_Witness ==
    /\ Repeats(ShuffleG)
    /\ Len(moves) = FourCompletions
    /\ is_nfold_repetition(position_counts, 5)
    /\ grid = InitialGrid

\* The kinds and colours on the squares of two grids are the same.
SamePlacement(g, h) ==
    \A s \in Squares : g[s].type = h[s].type /\ g[s].colour = h[s].colour

\* The key under which record_position counted the initial position.
InitialKey == position_state(PGNBoard, get_moves(PGNBoard))

\* C8: two recorded positions with the same side to move and the same kind and
\* colour of piece on every square, but different castling rights, are counted
\* under different keys.  The initial position, in which nothing has moved, is
\* one of them; the other is the current position, which record_position has
\* just counted, when a king or a rook has been the mover of a committed move.
C8_CastlingRightsSeparateTheKeys ==
    (/\ InPlay
     /\ turn = WHITE
     /\ SamePlacement(grid, InitialGrid)
     /\ \E i \in 1 .. Len(moves) : moves[i].from_before.piece.type \in {"king", "rook"})
    => position_state(Board, current_moves) # InitialKey

\* The last committed move, the board PGNGenerator holds when it writes it, and
\* the other pieces of the mover's kind and colour whose legal moves on that
\* board reach the same destination.
LastMove == moves[Len(moves)]

BoardBeforeLast == pgn_board(moves, Len(moves) - 1)

Rivals ==
    {s \in Squares :
        /\ s # SquareAt(LastMove.from_before.file, LastMove.from_before.rank)
        /\ BoardBeforeLast.grid[s].type = LastMove.from_before.piece.type
        /\ BoardBeforeLast.grid[s].colour = LastMove.from_before.piece.colour
        /\ InSeq(SquareAt(LastMove.to_before.file, LastMove.to_before.rank),
                 move_methods(BoardBeforeLast, s))}

\* C9: for a knight move to an empty square that exactly one other knight of
\* the same colour, standing on another file, can legally reach as well,
\* get_source_square_notation returns the mover's file letter and nothing else.
C9_KnightQualifiedByFileAlone ==
    (/\ Len(moves) > 0
     /\ promotion = None
     /\ LastMove.from_before.piece.type = "knight"
     /\ Empty(LastMove.to_before.piece)
     /\ Cardinality(Rivals) = 1
     /\ \A s \in Rivals : FileOf(s) # LastMove.from_before.file)
    => src_string(moves, Len(moves)) = <<FILE_STRING[LastMove.from_before.file + 1]>>

\* C10: for a move of a piece other than a pawn, get_source_square_notation
\* returns a qualifier only if another piece of the mover's kind and colour can
\* legally reach the same destination; a piece of the other colour never
\* brings a qualifier about.
C10_QualifierOnlyForSameColourRivals ==
    (/\ Len(moves) > 0
     /\ promotion = None
     /\ LastMove.from_before.piece.type # "pawn"
     /\ ~LastMove.castling
     /\ src_string(moves, Len(moves)) # <<>>)
    => Rivals # {}

(***************************************************************************)
(* C11.  is_insufficient_material reads the grid alone.  It is applied to   *)
(* every grid with the kings on e1 and e8 and any white or black piece, or  *)
(* none, on each of four squares, two dark and two light; the fields it     *)
(* does not read are those of a game that has just begun.                   *)
(***************************************************************************)

\* c3 and d6 are dark, d3 and c6 light.
MaterialSquares == {SquareAt(2, 2), SquareAt(3, 2), SquareAt(2, 5), SquareAt(3, 5)}

\* At most this many pieces stand beside the two kings.
MaxExtra == 4

MaterialKinds == {"none"} \cup CapturedKinds

MaterialGrid(kind, colour) ==
    [s \in Squares |->
        IF s \in MaterialSquares
        THEN IF kind[s] = "none" THEN NoPiece
             ELSE MkPiece(kind[s], colour[s], s + 1, FALSE)
        ELSE IF s = SquareAt(4, 0) THEN MkPiece("king", WHITE, s + 1, FALSE)
        ELSE IF s = SquareAt(4, 7) THEN MkPiece("king", BLACK, s + 1, FALSE)
        ELSE NoPiece]

InitMaterial ==
    /\ \E kind \in [MaterialSquares -> MaterialKinds] :
       \E colour \in [MaterialSquares -> {WHITE, BLACK}] :
          /\ Cardinality({s \in MaterialSquares : kind[s] # "none"}) <= MaxExtra
          /\ \A s \in MaterialSquares : kind[s] = "none" => colour[s] = WHITE
          /\ grid = MaterialGrid(kind, colour)
    /\ turn = WHITE
    /\ moves = <<>>
    /\ captured = [c \in {WHITE, BLACK} |-> [k \in CapturedKinds |-> 0]]
    /\ current_moves = <<>>
    /\ position_counts = [k \in {} |-> 0]
    /\ selected_square = None
    /\ possible_moves = <<>>
    /\ confirm_deselect = FALSE
    /\ promotion = None
    /\ result = NoResult
    /\ winner = None
    /\ checkmated = None
    /\ stalemate_square = None
    /\ can_claim_draw = FALSE
    /\ accept_draw_active = FALSE
    /\ initial_coordinates = NoCoordinates
    /\ drag_coordinates = NoCoordinates

\* DisplayBoard.make_move, lines 296-300: the test of the material and the
\* end of the game that follows it.
material_test ==
    /\ ~finished
    /\ is_insufficient_material(grid)
    /\ end("Insufficient Material", winner)
    /\ UNCHANGED <<grid, turn, moves, captured, position_counts, current_moves,
                   promotion, checkmated, stalemate_square, can_claim_draw,
                   accept_draw_active>>

SpecMaterial == InitMaterial /\ [][material_test]_vars

Minors(g, c) ==
    {s \in Squares : g[s].colour = c /\ g[s].type \in {"knight", "bishop"}}

Heavy(g) == {s \in Squares : g[s].type \in {"pawn", "rook", "queen"}}

SquareParity(s) == (FileOf(s) + RankOf(s)) % 2

\* The material the claim lists: bare kings, one minor piece against a bare
\* king, or one bishop each on squares of the same colour.
DeadMaterial(g) ==
    /\ Heavy(g) = {}
    /\ \/ Minors(g, WHITE) = {} /\ Cardinality(Minors(g, BLACK)) <= 1
       \/ Minors(g, BLACK) = {} /\ Cardinality(Minors(g, WHITE)) <= 1
       \/ \E w \in Minors(g, WHITE), b \in Minors(g, BLACK) :
             /\ Minors(g, WHITE) = {w}
             /\ Minors(g, BLACK) = {b}
             /\ g[w].type = "bishop"
             /\ g[b].type = "bishop"
             /\ SquareParity(w) = SquareParity(b)

\* C11: is_insufficient_material is true exactly for king against king, king
\* and one knight or bishop against a bare king, and king and bishop against
\* king and bishop with the bishops on squares of the same colour; it is
\* false with bishops on opposite colours, with any pawn, rook or queen, and
\* when a side has two or more minor pieces.  The game is ended as
\* Insufficient Material only on such material.
C11_InsufficientMaterialExactly ==
    /\ is_insufficient_material(grid) <=> DeadMaterial(grid)
    /\ result = "Insufficient Material" => DeadMaterial(grid)

\* The game was ended with one bishop each, both on dark squares.
C11_Witness ==
    /\ result = "Insufficient Material"
    /\ grid[SquareAt(2, 2)].type = "bishop"
    /\ grid[SquareAt(2, 2)].colour = WHITE
    /\ grid[SquareAt(3, 5)].type = "bishop"
    /\ grid[SquareAt(3, 5)].colour = BLACK
    /\ Cardinality({s \in Squares : ~Empty(grid[s])}) = 4

(***************************************************************************)
(* C12.  The moves listed in the initial position and after 1. e4.         *)
(***************************************************************************)

RECURSIVE TotalMoves(_, _)
TotalMoves(cm, i) ==
    IF i > Len(cm) THEN 0 ELSE Len(cm[i].moves) + TotalMoves(cm, i + 1)

\* Two moves for every pawn and every knight, none for any other piece.
OpeningCounts(cm) ==
    /\ Len(cm) = 2 * FILES
    /\ \A i \in 1 .. Len(cm) :
          Len(cm[i].moves) = IF cm[i].piece.type \in {"pawn", "knight"} THEN 2 ELSE 0
    /\ TotalMoves(cm, 1) = 20

KingPawnOpening ==
    /\ Len(moves) = 1
    /\ moves[1].from_before.file = 4
    /\ moves[1].from_before.rank = 1
    /\ moves[1].to_before.file = 4
    /\ moves[1].to_before.rank = 3

\* C12: in the initial position White has exactly 20 legal moves, two for
\* each pawn and each knight and none for any other piece; after the king's
\* pawn has advanced two squares Black has exactly 20 legal moves.
C12_TwentyMovesInTheOpening ==
    /\ Len(moves) = 0 =>
          /\ OpeningCounts(current_moves)
          /\ \A i \in 1 .. Len(current_moves) : current_moves[i].piece.colour = WHITE
    /\ KingPawnOpening =>
          /\ TotalMoves(current_moves, 1) = 20
          /\ \A i \in 1 .. Len(current_moves) : current_moves[i].piece.colour = BLACK

\* 1. e4 has been played and Black is to move.
C12_Witness ==
    /\ KingPawnOpening
    /\ turn = BLACK
    /\ grid[SquareAt(4, 3)].type = "pawn"
    /\ ~finished

(***************************************************************************)
(* C13.  The tests that end the game, in the order make_move makes them.   *)
(***************************************************************************)

Committed == Len(moves') = Len(moves) + 1

\* Each test on its own, on the position the committed move has produced.
MateHolds == checkmate_square(MkBoard(grid', turn, moves, FALSE)) # None
FivefoldHolds == is_nfold_repetition(position_counts', 5)
SeventyFiveHolds == is_nmove_rule(moves', 75)
MaterialHolds == is_insufficient_material(grid')
NoMoveHolds == \A i \in 1 .. Len(current_moves') : Len(current_moves'[i].moves) = 0

OutcomeInOrder(mate) ==
    /\ result' = "Checkmate" <=> mate
    /\ result' = "Fivefold Repetition" <=> ~mate /\ FivefoldHolds
    /\ result' = "75 Move Rule" <=> ~mate /\ ~FivefoldHolds /\ SeventyFiveHolds
    /\ result' = "Insufficient Material" <=>
          ~mate /\ ~FivefoldHolds /\ ~SeventyFiveHolds /\ MaterialHolds
    /\ result' = "Stalemate" <=>
          /\ ~mate /\ ~FivefoldHolds /\ ~SeventyFiveHolds /\ ~MaterialHolds
          /\ NoMoveHolds
    /\ result' = NoResult <=>
          /\ ~mate /\ ~FivefoldHolds /\ ~SeventyFiveHolds /\ ~MaterialHolds
          /\ ~NoMoveHolds
    /\ IF mate
       THEN turn' = turn /\ position_counts' = position_counts
       ELSE turn' = Opponent(turn)

\* C13: after a committed move the game ends with the first of checkmate,
\* fivefold repetition, 75 move rule, insufficient material and stalemate
\* that holds, in this order, and goes on when none holds; on checkmate the
\* turn is not inverted and the position is not recorded.
C13_FirstTerminalTestDecides == [][Committed => OutcomeInOrder(MateHolds)]_vars

\* The game has ended as a fivefold repetition with the move that also
\* completed 75 moves a side without a pawn move or a capture.
C13_Witness ==
    /\ result = "Fivefold Repetition"
    /\ is_nmove_rule(moves, 75)

(***************************************************************************)
(* C14.  What a click or a drop may commit.                                *)
(***************************************************************************)

\* The source and the destination of the move a step has committed.
CommittedFrom ==
    SquareAt(moves'[Len(moves')].from_before.file, moves'[Len(moves')].from_before.rank)
CommittedTo ==
    SquareAt(moves'[Len(moves')].to_before.file, moves'[Len(moves')].to_before.rank)

\* The list set_moves stored for the piece on s after the previous move.
ListedFor(s) ==
    IF \E i \in 1 .. Len(current_moves) : current_moves[i].piece = grid[s]
    THEN MovesOf(current_moves, grid[s]) ELSE <<>>

\* C14: a move is committed only from a square that holds a piece of the
\* side to move and only to a square in the list of legal moves computed
\* for that piece after the previous committed move; every other click,
\* drag or drop leaves the grid, the turn, the history, the capture tallies
\* and position_counts as they were.
C14_OnlyListedMovesAreCommitted ==
    [][IF Committed
       THEN /\ ~Empty(grid[CommittedFrom])
            /\ grid[CommittedFrom].colour = turn
            /\ InSeq(CommittedTo, ListedFor(CommittedFrom))
            /\ moves' = Append(moves, moves'[Len(moves')])
       ELSE UNCHANGED <<grid, turn, moves, captured, position_counts>>]_vars

\* White's first move has been made by dragging the piece and dropping it:
\* the point first clicked is still the middle of the square the piece came
\* from, where a move made by a second click leaves the point of that click.
C14_Witness ==
    /\ Len(moves) = 1
    /\ initial_coordinates =
          <<min_x + SQUARE_WIDTH * moves[1].from_before.file + SQUARE_WIDTH \div 2,
            min_y + SQUARE_WIDTH * (RANKS - 1 - moves[1].from_before.rank)
                + SQUARE_WIDTH \div 2>>
    /\ selected_square = None
    /\ drag_coordinates = NoCoordinates

(***************************************************************************)
(* C15.  DisplayBoard.draw called for the side to move, no offer pending.  *)
(***************************************************************************)

\* Such a call is known by what it does: it opens an offer or ends the game
\* as one of the two claimable draws.
DrawByMover ==
    /\ ~finished
    /\ ~accept_draw_active
    /\ accept_draw_active' \/ result' \in {"Threefold Repetition", "50 Move Rule"}

Claimable == is_nfold_repetition(position_counts, 3) \/ is_nmove_rule(moves, 50)

\* C15: draw, called for the side to move while no offer is pending, ends
\* the game at once, as Threefold Repetition or as 50 Move Rule, exactly when
\* is_nfold_repetition(3) or is_nmove_rule(50) holds; otherwise the game
\* stays in progress and the offer becomes pending.  The board is not
\* changed in either case.
C15_DrawEndsTheGameIffClaimable ==
    [][DrawByMover =>
          /\ UNCHANGED <<grid, turn, moves, captured, position_counts, current_moves>>
          /\ IF Claimable
             THEN /\ result' = (IF is_nfold_repetition(position_counts, 3)
                                THEN "Threefold Repetition" ELSE "50 Move Rule")
                  /\ ~accept_draw_active'
             ELSE /\ result' = NoResult
                  /\ accept_draw_active']_vars

\* The game was ended by a claim of the 50 move rule: 100 quiet plies were
\* played and no position had occurred three times.
C15_Witness ==
    /\ result = "50 Move Rule"
    /\ Len(moves) = 100
    /\ ~is_nfold_repetition(position_counts, 3)

(***************************************************************************)
(* C16.  get_square at and around the edges of the squares.                *)
(***************************************************************************)

\* The coordinates one pixel before, on and one pixel after each edge.
EdgeOffsets ==
    UNION {{SQUARE_WIDTH * k - 1, SQUARE_WIDTH * k, SQUARE_WIDTH * k + 1} : k \in 0 .. FILES}

EdgePoints == {<<min_x + dx, min_y + dy>> : dx \in EdgeOffsets, dy \in EdgeOffsets}

\* The point lies in the rectangle in which the square s is drawn.
DrawnAt(s, point) ==
    /\ DrawnLeft(s) <= point[1] /\ point[1] < DrawnLeft(s) + SQUARE_WIDTH
    /\ DrawnTop(s) <= point[2] /\ point[2] < DrawnTop(s) + SQUARE_WIDTH

\* C16: get_square returns None for every point outside the drawn area of
\* the 64 squares, the points with x = max_x or y = max_y included, whether
\* the board is drawn the normal way or reversed; and a square it returns is
\* the square drawn at that point.
C16_SquareReturnedIsTheSquareDrawn ==
    \A point \in EdgePoints :
        IF \E s \in Squares : DrawnAt(s, point)
        THEN get_square(point) # None /\ DrawnAt(get_square(point), point)
        ELSE get_square(point) = None

(***************************************************************************)
(* C17.  is_nmove_rule(n), for small n and for the 50 and the 75 that      *)
(* draw and make_move pass.                                                *)
(***************************************************************************)

\* The largest of the small n tried.
MaxRuleMoves == 3

RuleMoves == 1 .. MaxRuleMoves \cup {50, 75}

\* The move was made by a pawn (en passant is a pawn's move) or took the
\* piece on the square it landed on.
PawnMoveOrCapture(m) ==
    \/ m.from_before.piece.type = "pawn"
    \/ m.en_passant
    \/ ~Empty(m.to_before.piece)

\* How many moves have been committed since the last pawn move or capture.
RECURSIVE QuietTail(_, _)
QuietTail(ms, k) ==
    IF k = 0 \/ PawnMoveOrCapture(ms[k]) THEN 0 ELSE 1 + QuietTail(ms, k - 1)

Candidates(b, square) ==
    Range(test_moves(b, square))
    \cup {move \in {SquareAt(6, RankOf(square)), SquareAt(2, RankOf(square))} :
            is_castling(b, square, move)}

Untouched(f) ==
    /\ \A square \in OwnSquares(f) : \A move \in Candidates(f, square) :
            legal_move_after(f, square, move) = f
    /\ any_square_under_attack_after(f) = f
    /\ is_check_after(f) = f
    /\ checkmate_square_after(f) = f
    /\ get_moves_after(f, 0) = f

\* C18: in every reachable position, with either side to move, and for every
\* candidate move, legal_move, any_square_under_attack, is_check,
\* checkmate_square and get_moves return with every square's occupant, the
\* turn, the move history and position_counts as they were and with test_move
\* False.
C18_QueriesLeaveTheBoardUntouched ==
    /\ Untouched(Frame(Board, position_counts))
    /\ Untouched(Frame(invert_turn(Board), position_counts))

\* A position where castling is a candidate and some other candidate is
\* refused by legal_move.
C18_Witness ==
    /\ \E square \in OwnSquares(Board) :
          \E move \in Candidates(Board, square) : is_castling(Board, square, move)
    /\ \E square \in OwnSquares(Board) :
          \E move \in Range(test_moves(Board, square)) : ~legal_move(Board, square, move)

(***************************************************************************)
(* C19.  The turn and the length of the history.                           *)
(***************************************************************************)

\* The indices of self.moves[self.turn.value::2], the slice is_castling reads.
OwnSlice == {i \in 1 .. Len(moves) : (i - 1) % 2 = turn}

TurnMatchesHistory ==
    ~finished =>
        /\ turn = WHITE <=> Len(moves) % 2 = 0
        /\ \A i \in 1 .. Len(moves) :
              i \in OwnSlice <=> moves[i].from_before.piece.colour = turn

TurnStep ==
    /\ Committed =>
          /\ SubSeq(moves', 1, Len(moves)) = moves
          /\ checkmated' = None => turn' = Opponent(turn)
    /\ ~Committed => UNCHANGED <<turn, moves>>

\* C19: while the game is in progress the turn is White exactly when the
\* number of committed moves is even, and moves[turn::2] holds exactly the
\* moves of the side to move; every committed non-mating move flips the turn
\* and appends one Move, and no other step changes the turn or the history.
C19_TurnFollowsTheHistory == []TurnMatchesHistory /\ [][TurnStep]_vars

\* Black is to move after several moves of each side and may castle.
C19_Witness ==
    /\ ~finished
    /\ turn = BLACK
    /\ Len(moves) >= 5
    /\ \E s \in Squares :
          /\ grid[s].type = "king" /\ grid[s].colour = turn /\ FileOf(s) = 4
          /\ \E i \in 1 .. Len(current_moves) :
                /\ current_moves[i].piece = grid[s]
                /\ \E j \in 1 .. Len(current_moves[i].moves) :
                      FileOf(current_moves[i].moves[j]) \in {2, 6}

(***************************************************************************)
(* C20.  The two kings.                                                    *)
(***************************************************************************)

KingsOf(g, c) == {s \in Squares : g[s].type = "king" /\ g[s].colour = c}

BothKings(g) == \A c \in {WHITE, BLACK} : Cardinality(KingsOf(g, c)) = 1

\* C20: every position reached by committed moves holds exactly one white and
\* one black king; no committed move, and no move the position offers, takes
\* a king; get_king_square finds a square for the side to move and for its
\* opponent.
C20_OneKingOfEachColour ==
    /\ BothKings(grid)
    /\ \A i \in 1 .. Len(moves) : moves[i].to_before.piece.type # "king"
    /\ get_king_square(Board, FALSE) # None
    /\ get_king_square(Board, TRUE) # None
    /\ InPlay =>
          \A i \in 1 .. Len(current_moves) :
              \A j \in 1 .. Len(current_moves[i].moves) :
                  /\ grid[current_moves[i].moves[j]].type # "king"
                  /\ BothKings(PlayedGrid(SquareOf(current_moves[i].piece),
                                          current_moves[i].moves[j]))

\* A king has just taken a piece.
C20_Witness ==
    /\ Len(moves) > 0
    /\ moves[Len(moves)].from_before.piece.type = "king"
    /\ ~Empty(moves[Len(moves)].to_before.piece)
    /\ InPlay

(***************************************************************************)
(* C21.  Board.current_moves between user actions.                         *)
(***************************************************************************)

\* The pieces that are keys of current_moves.
Keys(cm) == {cm[i].piece : i \in 1 .. Len(cm)}

CurrentMovesAreFresh ==
    ~finished =>
        /\ Keys(current_moves) = {grid[s] : s \in OwnSquares(Board)}
        /\ Len(current_moves) = Cardinality(OwnSquares(Board))
        /\ current_moves = get_moves(Board)

CurrentMovesStep == ~Committed => UNCHANGED current_moves

\* C21: while the game is in progress current_moves has as keys exactly the
\* pieces of the side to move that stand on the grid, each with the list
\* get_moves computes afresh in the position, and no step that commits no
\* move changes it.
C21_CurrentMovesAreUpToDate == []CurrentMovesAreFresh /\ [][CurrentMovesStep]_vars

\* A double step has just been committed and a pawn of the side to move may
\* take en passant: the list depends on the move appended last.
C21_Witness ==
    /\ InPlay
    /\ \E i \in 1 .. Len(current_moves) :
          \E j \in 1 .. Len(current_moves[i].moves) :
              is_en_passant(Board, SquareOf(current_moves[i].piece),
                            current_moves[i].moves[j])

(***************************************************************************)
(* C22.  position_counts and is_nfold_repetition.                          *)
(***************************************************************************)

RECURSIVE SumCounts(_, _)
SumCounts(counts, keys) ==
    IF keys = {} THEN 0
    ELSE LET k == CHOOSE x \in keys : TRUE
         IN  counts[k] + SumCounts(counts, keys \ {k})

\* The committed moves that did not mate.
NonMating == Len(moves) - (IF checkmated = None THEN 0 ELSE 1)

\* What the claim calls a position, written as the list that is hashed: the
\* side to move, the kind and colour on every square, and for every piece of
\* the side to move, in the order of the squares, its legal destinations.
KindAndColour(p) ==
    IF Empty(p) THEN <<>>
    ELSE <<CASE p.type = "pawn" -> "p" [] p.type = "knight" -> "n"
             [] p.type = "bishop" -> "b" [] p.type = "rook" -> "r"
             [] p.type = "queen" -> "q" [] p.type = "king" -> "k",
           p.colour>>

Destinations(list) ==
    [j \in 1 .. Len(list) |-> <<FileOf(list[j]), RankOf(list[j])>>]

\* legal is get_moves of the position: one entry per piece of the side to
\* move, in the order of the squares.
KeyOf(g, t, legal) ==
    <<t>>
    \o [i \in 1 .. FILES * RANKS |-> KindAndColour(g[i - 1])]
    \o [i \in 1 .. Len(legal) |->
           <<KindAndColour(legal[i].piece)>> \o Destinations(legal[i].moves)]

PositionKeyOf(g, t, ms) ==
    CHOOSE key \in {KeyOf(g, t, legal) : legal \in {get_moves(MkBoard(g, t, ms, FALSE))}} :
        TRUE

PositionKey == PositionKeyOf(grid, turn, moves)

Recorded(before, after, key) ==
    /\ DOMAIN after = DOMAIN before \cup {key}
    /\ \A k \in DOMAIN after : after[k] = Count(before, k) + (IF k = key THEN 1 ELSE 0)

PositionsAreCounted ==
    /\ SumCounts(position_counts, DOMAIN position_counts) = 1 + NonMating
    /\ \A k \in DOMAIN position_counts : position_counts[k] >= 1
    /\ checkmated = None =>
          \E key \in {PositionKey} :
              /\ key \in DOMAIN position_counts
              /\ position_state(Board, current_moves) = key
    /\ \A n \in 1 .. 6 :
          is_nfold_repetition(position_counts, n)
              <=> \E k \in DOMAIN position_counts : position_counts[k] >= n

PositionsStep ==
    IF Committed /\ checkmated' = None
    THEN \E g \in {grid'}, t \in {turn'}, ms \in {moves'} :
            Recorded(position_counts, position_counts', PositionKeyOf(g, t, ms))
    ELSE UNCHANGED position_counts

\* C22: position_counts holds the initial position once and the resulting
\* position once for every committed non-mating move and nothing else; a
\* position is the side to move, the kind and colour on every square and the
\* legal destinations of every piece of the side to move; is_nfold_repetition(n)
\* is true exactly when some position has been counted n times or more.
C22_PositionsAreCountedOnce == []PositionsAreCounted /\ [][PositionsStep]_vars

\* A position has come about for the fifth time.
C22_Witness ==
    /\ is_nfold_repetition(position_counts, 5)
    /\ ~is_nfold_repetition(position_counts, 6)
    /\ Cardinality(DOMAIN position_counts) > 5

(***************************************************************************)
(* C23.  Stalemate.                                                        *)
(***************************************************************************)

\* The side of colour c, were it to move, has no legal move for any piece.
NoLegalMove(c) ==
    \A entry \in Range(get_moves(MkBoard(grid, c, moves, FALSE))) : entry.moves = <<>>

\* C23: the result Stalemate is given only to a position in which the side to
\* move has no legal move and its king is not attacked, with stalemate_square
\* the square of that king; a position in which a side has no legal move and
\* its king is attacked never has the result Stalemate.
C23_StalemateMeansNoMoveAndNoCheck ==
    /\ result = "Stalemate" =>
          /\ ~KingExposed(grid, moves, turn)
          /\ NoLegalMove(turn)
          /\ stalemate_square \in KingsOf(grid, turn)
    /\ \A c \in {WHITE, BLACK} :
          KingExposed(grid, moves, c) /\ NoLegalMove(c) => result # "Stalemate"

\* A stalemate has been declared.
C23_Witness ==
    /\ result = "Stalemate"
    /\ stalemate_square # None
    /\ winner = None

(***************************************************************************)
(* C24.  The clock of the side to move runs out.                           *)
(***************************************************************************)

TimedOut == result \in {"Timeout", "Timeout vs Insufficient Material"}

\* The pieces of the opponent of the side whose clock ran out (end leaves the
\* turn with that side).
OpponentPieces == {s \in Squares : ~Empty(grid[s]) /\ grid[s].colour = Opponent(turn)}

\* C24: when the clock of the side to move has run out, the opponent wins by
\* Timeout if it has a pawn, a rook or a queen or at least three pieces, its
\* king included, and the game is drawn as Timeout vs Insufficient Material
\* if it has its king alone.
C24_TimeoutAgainstMaterial ==
    TimedOut =>
        /\ ((\E s \in OpponentPieces : grid[s].type \in {"pawn", "rook", "queen"})
            \/ Cardinality(OpponentPieces) >= 3)
              => result = "Timeout" /\ winner = Opponent(turn)
        /\ Cardinality(OpponentPieces) = 1
              => result = "Timeout vs Insufficient Material" /\ winner = None

\* The clock has run out against a bare king: a draw.
C24_Witness ==
    /\ result = "Timeout vs Insufficient Material"
    /\ Cardinality(OpponentPieces) = 1
    /\ \E s \in Squares : grid[s].type \in {"pawn", "rook", "queen"}

(***************************************************************************)
(* C25.  What is_timeout_vs_insufficient_material leaves behind.           *)
(***************************************************************************)

\* The opponent of the side to move has too little to pass the first count,
\* so the dummy moves are made.
SearchesForMate == ~finished /\ ~can_still_mate(Board)

\* C25: in every position of a game in progress,
\* is_timeout_vs_insufficient_material returns with the occupant of every
\* square, the turn, the move history and position_counts as they were
\* before the call, whichever return it takes, each dummy move being undone
\* before the next, and the value it returns is the one the search found;
\* the entries committed moves have put in the history are never altered or
\* reordered.
SearchReturnsTheBoard ==
    ~finished =>
        \E run \in {timeout_search_run(Frame(Board, position_counts), current_moves)} :
            /\ run.frame = Frame(Board, position_counts)
            /\ run.insuffient
                 = is_timeout_vs_insufficient_material(Board, current_moves, position_counts)

\* Across a step, the clock running out included, the history is the same
\* or has one more entry after the entries it had.
HistoryStep ==
    \/ moves' = moves
    \/ Len(moves') = Len(moves) + 1 /\ SubSeq(moves', 1, Len(moves)) = moves

C25_TimeoutSearchLeavesTheBoardUntouched ==
    []SearchReturnsTheBoard /\ [][HistoryStep]_vars

\* The search is run and finds a mate, so it returns from inside the loops.
C25_Witness ==
    /\ SearchesForMate
    /\ ~is_timeout_vs_insufficient_material(Board, current_moves, position_counts)

(***************************************************************************)
(* C26.  The end of the game is final.                                     *)
(***************************************************************************)

Wins == {"Checkmate", "Resignation", "Timeout"}

Draws ==
    {"Stalemate", "Fivefold Repetition", "75 Move Rule", "Insufficient Material",
     "Threefold Repetition", "50 Move Rule", "Mutual",
     "Timeout vs Insufficient Material"}

WinnerMatchesResult ==
    /\ result \in {NoResult} \cup Wins \cup Draws
    /\ winner \in {WHITE, BLACK} <=> result \in Wins
    /\ result \in Draws \cup {NoResult} => winner = None

AbsorbingStep == finished => UNCHANGED <<grid, turn, moves, result, winner>>

\* C26: once a result is set, no click on the board, drag, drop, click on a
\* draw or resign text or clock tick changes the grid, the turn, the move
\* history, the result or the winner; the winner is a colour exactly when
\* the result is checkmate, resignation or timeout, and None for every draw.
C26_ResultIsFinal == []WinnerMatchesResult /\ [][AbsorbingStep]_vars

\* The clock has run out with the promotion menu open: the game is over and
\* the pawn still stands on the seventh rank, waiting for a choice.
C26_Witness ==
    /\ result = "Timeout"
    /\ promotion # None
    /\ winner = Opponent(turn)

(***************************************************************************)
(* C27.  Committing an en passant capture.                                 *)
(***************************************************************************)

\* The step commits a pawn's move to an empty square of another file.
EnPassantCommitted ==
    /\ Committed
    /\ grid[CommittedFrom].type = "pawn"
    /\ FileOf(CommittedFrom) # FileOf(CommittedTo)
    /\ Empty(grid[CommittedTo])

\* The square on the destination file and the source rank.
PassedPawnSquare == SquareAt(FileOf(CommittedTo), RankOf(CommittedFrom))

EnPassantStep ==
    /\ (Committed /\ moves'[Len(moves')].en_passant) <=> EnPassantCommitted
    /\ EnPassantCommitted =>
          /\ Len(moves) > 0
          /\ grid[PassedPawnSquare] = moves[Len(moves)].to_after.piece
          /\ grid[PassedPawnSquare].type = "pawn"
          /\ grid[PassedPawnSquare].colour = Opponent(turn)
          /\ moves[Len(moves)].to_after.file = FileOf(PassedPawnSquare)
          /\ moves[Len(moves)].to_after.rank = RankOf(PassedPawnSquare)
          /\ moves[Len(moves)].from_before.file = FileOf(PassedPawnSquare)
          /\ moves[Len(moves)].from_before.rank
                = 2 * RankOf(CommittedTo) - RankOf(PassedPawnSquare)
          /\ RankOf(CommittedTo) = RankOf(CommittedFrom) + (IF turn = WHITE THEN 1 ELSE 0 - 1)
          /\ grid' = [grid EXCEPT ![CommittedTo] = grid[CommittedFrom],
                                  ![CommittedFrom] = NoPiece,
                                  ![PassedPawnSquare] = NoPiece]
          /\ captured' = [captured EXCEPT ![Opponent(turn)]["pawn"] = @ + 1]
          /\ moves' = Append(moves, moves'[Len(moves')])
          /\ ~moves'[Len(moves')].castling /\ ~moves'[Len(moves')].promotion

\* C27: a committed en passant capture puts the capturing pawn on the
\* passed-over square, empties the square on the destination file and the
\* source rank, where the enemy pawn that has just advanced two squares
\* stands, adds one to the captured pawns of the enemy colour and appends
\* one Move with en_passant set; no other square and no other tally changes,
\* and no other move has the flag.
C27_EnPassantCommitted == [][EnPassantStep]_vars

\* A pawn has just been taken en passant.
C27_Witness ==
    /\ Len(moves) > 0
    /\ moves[Len(moves)].en_passant
    /\ \E c \in {WHITE, BLACK} : captured[c]["pawn"] >= 1

(***************************************************************************)
(* C28.  Draw offers and the mutual draw.                                  *)
(***************************************************************************)

OfferOpened == ~accept_draw_active /\ accept_draw_active'
MutualAgreed == result = NoResult /\ result' = "Mutual"

\* Who may open and who may accept.
OfferStep ==
    \A colour \in {WHITE, BLACK} :
        draw_click(colour) =>
            /\ OfferOpened => colour = turn
            /\ MutualAgreed => colour = Opponent(turn)

\* What opening, accepting and committing do to the offer.
PendingStep ==
    /\ OfferOpened =>
          ~finished /\ ~finished' /\ ~Claimable /\ UNCHANGED <<grid, turn, moves>>
    /\ MutualAgreed => accept_draw_active /\ UNCHANGED <<grid, turn, moves>>
    /\ (Committed /\ ~finished') => ~accept_draw_active'
    /\ (accept_draw_active /\ accept_draw_active' /\ ~finished') => UNCHANGED moves

\* An offer is pending, or has been accepted, in a position where no draw
\* could be claimed.
OfferIsNotAClaim ==
    /\ (accept_draw_active /\ ~finished) => ~Claimable
    /\ result = "Mutual" => accept_draw_active /\ ~Claimable

\* C28: the result Mutual is set only by the opponent of the side to move
\* accepting a pending offer; an offer is opened only by the side to move, in
\* a position where no draw can be claimed, and stays pending only until the
\* next move is committed: every committed move that does not end the game
\* clears it.
C28_MutualDrawNeedsOfferAndAcceptance ==
    []OfferIsNotAClaim /\ [][OfferStep /\ PendingStep]_vars

\* A game drawn by agreement after some moves, an earlier offer having been
\* possible at the start.
C28_Witness ==
    /\ result = "Mutual"
    /\ Len(moves) > 0
    /\ accept_draw_active

(***************************************************************************)
(* C29.  Promotion.                                                        *)
(***************************************************************************)

LastRanks == {0, RANKS - 1}

NoPawnOnTheLastRank ==
    \A s \in Squares : grid[s].type = "pawn" => RankOf(s) \notin LastRanks

\* The step commits a pawn's move to rank 0 or rank 7.
PawnReachesTheLastRank ==
    /\ Committed
    /\ grid[CommittedFrom].type = "pawn"
    /\ RankOf(CommittedTo) \in LastRanks

PromotionStep ==
    /\ (Committed /\ moves'[Len(moves')].promotion) <=> PawnReachesTheLastRank
    /\ PawnReachesTheLastRank =>
          /\ promotion = CommittedTo
          /\ promotion' = None
          /\ grid'[CommittedTo].type \in PromotionKinds
          /\ grid'[CommittedTo].colour = turn
          /\ grid'[CommittedTo].promoted
          /\ \A s \in Squares : grid[s] # grid'[CommittedTo]
          /\ grid' = [grid EXCEPT ![CommittedTo] = grid'[CommittedTo],
                                  ![CommittedFrom] = NoPiece]
    /\ (Committed /\ ~PawnReachesTheLastRank) =>
          grid'[CommittedTo] = grid[CommittedFrom]
    /\ ~Committed => UNCHANGED <<grid, turn, moves, captured, position_counts>>

\* C29: no position has a pawn on rank 0 or rank 7; a pawn's move to the
\* last rank is committed only from the open menu, with the queen, rook,
\* bishop or knight chosen there, of the mover's colour and flagged as
\* promoted, standing on the destination in place of the pawn; opening the
\* menu, and closing it without a choice, leave grid, turn, move history,
\* capture tallies and position_counts as they were.
C29_PromotionReplacesThePawn == []NoPawnOnTheLastRank /\ [][PromotionStep]_vars

\* A promoted knight stands on the last rank, a piece having been taken
\* there.
C29_Witness ==
    /\ \E s \in Squares :
          grid[s].type = "knight" /\ grid[s].promoted /\ RankOf(s) \in LastRanks
    /\ moves[Len(moves)].promotion
    /\ ~Empty(moves[Len(moves)].to_before.piece)

(***************************************************************************)
(* C30.  The capture tallies and the pieces on the board.                  *)
(***************************************************************************)

Sum5(t) == t["pawn"] + t["knight"] + t["bishop"] + t["rook"] + t["queen"]

StartingCount(kind) ==
    CASE kind = "pawn" -> FILES
      [] kind = "queen" -> 1
      [] OTHER -> 2

\* The pieces of a colour on the grid that began the game as this kind: for
\* a pawn, the pawns and the promoted pieces.
OnGrid(c, kind) ==
    {s \in Squares :
        /\ grid[s].colour = c
        /\ IF kind = "pawn" THEN grid[s].type = "pawn" \/ grid[s].promoted
           ELSE grid[s].type = kind /\ ~grid[s].promoted}

TalliesAccountForTheMissing ==
    \A c \in {WHITE, BLACK} :
        \A kind \in {"pawn", "knight", "bishop", "rook", "queen"} :
            captured[c][kind] + Cardinality(OnGrid(c, kind)) = StartingCount(kind)

\* A step that commits a move tallies the piece it takes, once, and no
\* other step tallies anything.
TallyStep ==
    LET total(tally) ==
            Sum5(tally[WHITE]) + Sum5(tally[BLACK])
        pieces(g) == Cardinality({s \in Squares : ~Empty(g[s])})
    IN  /\ total(captured') - total(captured) = pieces(grid) - pieces(grid')
        /\ total(captured') - total(captured) \in {0, 1}
        /\ ~Committed => captured' = captured

\* C30: in every position and for each colour, the captured pawns, the pawns
\* on the grid and the promoted pieces on the grid together are 8, and for
\* knight, bishop, rook and queen the captured pieces and the unpromoted
\* pieces of the kind on the grid together are the starting count; a
\* promoted piece that is taken is tallied as a pawn, and each capture is
\* tallied once.
C30_TalliesAccountForMissingPieces ==
    []TalliesAccountForTheMissing /\ [][TallyStep]_vars

\* A promoted piece has been taken: the tally of pawns counts it, and the
\* tally of its kind does not.
C30_Witness ==
    /\ Len(moves) > 1
    /\ moves[Len(moves)].to_before.piece.promoted
    /\ captured[WHITE]["pawn"] >= 1
    /\ \A s \in Squares : ~grid[s].promoted

=============================================================================
